---- MODULE Spec2Model ----
(***************************************************************************)
(* Pattern matchers, Quil emitter and block patcher of qcs-sdk-qir.        *)
(*                                                                         *)
(* Spec is the translation of a block to Quil; SpecPatch is the rewrite of *)
(* a matched block by insert_quil_program (shot_count_block/qir.rs).       *)
(*                                                                         *)
(* A basic block is scanned one instruction per step, as the `while let`   *)
(* loops of from_basic_block do (shot_count_block/pattern.rs and           *)
(* unitary/pattern.rs).  The block itself is the input: each step draws    *)
(* the instruction under the cursor from the instructions the module under *)
(* translation can contain, and `scanned` keeps the instructions passed.   *)
(***************************************************************************)
EXTENDS Integers, Sequences, FiniteSets, TLC

VARIABLES
    fixture,          \* the module under translation and the options of the context
    pc,               \* position of the driver: scan, scanned, built, not_detected, error
    scanned,          \* the instructions of the block the cursor has passed, in order
    pending,          \* instructions already looked at by shot_count_loop_end, not yet scanned
    pattern_context,  \* ShotCountPatternMatchContext / UnitaryPatternMatchContext
    output,           \* ProgramOutput returned by build_quil_program
    original,         \* the LLVM module as insert_quil_program found it
    module,           \* the LLVM module while insert_quil_program rewrites it
    patcher           \* insert_quil_program: its position and its locals

vars == <<fixture, pc, scanned, pending, pattern_context, output, original, module, patcher>>

\* Largest number of iterations of the scan loop over one block.
MaxScan == 4

\* Option<u64> and Option<InstructionValue>: an absent value keeps the type.
Some(v) == [some |-> TRUE, v |-> v]
NoValue == [some |-> FALSE, v |-> 0]

PARAMETER_MEMORY_REGION_NAME == "__qir_param"

(***************************************************************************)
(* LLVM values and instructions.                                           *)
(***************************************************************************)

\* An operand of a call: pointer to %Qubit / %Result with its integer value,
\* a double (constant or SSA value), or anything else (an integer, say).
QubitPtr(i) == [kind |-> "Qubit", val |-> i, is_const |-> TRUE]
ResultPtr(i) == [kind |-> "Result", val |-> i, is_const |-> TRUE]
ConstFloat(c) == [kind |-> "Parameter", val |-> c, is_const |-> TRUE]
SsaFloat(id) == [kind |-> "Parameter", val |-> id, is_const |-> FALSE]
IntOperand(i) == [kind |-> "Int", val |-> i, is_const |-> TRUE]

\* A function name, cut at the double underscores that follow "__quantum":
\* __quantum__qis__h__ctl__adj__body is family qis, stem h, suffix ctl adj body;
\* __quantum__rt__result_record_output is family rt, stem result, suffix record_output.
FnName(family, stem, suffix) == [family |-> family, stem |-> stem, suffix |-> suffix]

NoName == FnName("", "", <<>>)

\* An integer operand: a constant, the result of the instruction at a position
\* of the block (0: a value defined elsewhere), or not an integer at all.
IntConst(c) == [vk |-> "const", n |-> c]
InstValue(p) == [vk |-> "inst", n |-> p]
NotInt == [vk |-> "nonint", n |-> 0]

\* One instruction.  callee/args: the called function and the operands before
\* it (calls); ints: the two operands of add and icmp; first_use: whether
\* operand 0 of a br is the first entry of the use list of the instruction
\* before it; else_target: operand 1 of a conditional br ("" otherwise);
\* tail: the instructions that follow an add in the block.
Instr(opcode, callee, args, ints, first_use, else_target, tail) ==
    [opcode |-> opcode, callee |-> callee, args |-> args, ints |-> ints,
     first_use |-> first_use, else_target |-> else_target, tail |-> tail]

Call(callee, args) == Instr("Call", callee, args, <<>>, FALSE, "", <<>>)

Plain(opcode) == Instr(opcode, NoName, <<>>, <<>>, FALSE, "", <<>>)

Add(op0, op1, tail) == Instr("Add", NoName, <<>>, <<op0, op1>>, FALSE, "", tail)

ICmp(op0, op1) == Instr("ICmp", NoName, <<>>, <<op0, op1>>, FALSE, "", <<>>)

CondBr(first_use, else_target) == Instr("Br", NoName, <<>>, <<>>, first_use, else_target, <<>>)

(***************************************************************************)
(* Quil programs (quil_rs::Program as this crate uses it).                 *)
(***************************************************************************)

\* Program::new().  memory_regions maps a region name to its descriptor.
NewProgram == [memory_regions |-> <<>>, instructions |-> <<>>]

\* Program::add_instruction: a DECLARE goes to the map of memory regions,
\* keyed by name; every other instruction is appended to the body.
add_instruction(program, instruction) ==
    IF instruction.kind = "Declaration"
    THEN [program EXCEPT !.memory_regions =
            [name \in DOMAIN @ \cup {instruction.name} |->
                IF name = instruction.name
                THEN [data_type |-> instruction.data_type, length |-> instruction.length]
                ELSE @[name]]]
    ELSE [program EXCEPT !.instructions = Append(@, instruction)]

\* The region names in the order the map yields them.
RegionOrder == <<"__qir_param", "ro">>

\* A slip: to_instructions(false), the body without the declarations.
to_instructions_without_headers(program) == program.instructions

\* Program::to_instructions(true): one DECLARE per memory region, then the body.
to_instructions(program) ==
    LET declared == SelectSeq(RegionOrder, LAMBDA name : name \in DOMAIN program.memory_regions)
    IN  [i \in 1..Len(declared) |->
            [kind |-> "Declaration", name |-> declared[i],
             data_type |-> program.memory_regions[declared[i]].data_type,
             length |-> program.memory_regions[declared[i]].length]]
        \o program.instructions

\* Program::body_instructions()
body_instructions(program) == program.instructions

RECURSIVE AddAll(_, _)
\* `for instruction in instructions { new_program.add_instruction(instruction) }`
AddAll(program, instructions) ==
    IF instructions = <<>> THEN program
    ELSE AddAll(add_instruction(program, Head(instructions)), Tail(instructions))

Number(c) == [tag |-> "Number", name |-> "", n |-> c]
Address(name, index) == [tag |-> "Address", name |-> name, n |-> index]

Gate(name, parameters, qubits, modifiers) ==
    [kind |-> "Gate", name |-> name, parameters |-> parameters,
     qubits |-> qubits, modifiers |-> modifiers]

Measurement(qubit, index) ==
    [kind |-> "Measurement", qubit |-> qubit, target |-> Address("ro", index)]

Declaration(name, data_type, length) ==
    [kind |-> "Declaration", name |-> name, data_type |-> data_type, length |-> length]

Reset == [kind |-> "Reset"]

Pragma(name, arguments) == [kind |-> "Pragma", name |-> name, arguments |-> arguments]

(***************************************************************************)
(* The pattern context and the matchers (pattern.rs of both formats).      *)
(***************************************************************************)

\* ShotCountPatternMatchContext::default().  The unitary context has the
\* same fields less initial_instruction, shot_count and next_basic_block,
\* which its matcher never touches.
DefaultContext ==
    [initial_instruction |-> NoValue,
     quil_program |-> NewProgram,
     recorded_output |-> <<>>,
     shot_count |-> NoValue,
     instructions_to_remove |-> <<>>,
     next_basic_block |-> "",
     read_result_mapping |-> <<>>,
     readout_instruction_mapping |-> <<>>,
     parameters |-> <<>>,
     use_active_reset |-> FALSE]

\* A slip: the Result index itself is used as the ro index.
entry_or_insert_sparse(mapping, key) ==
    IF key \in DOMAIN mapping THEN mapping
    ELSE [k \in DOMAIN mapping \cup {key} |-> IF k = key THEN key ELSE mapping[k]]

\* read_result_mapping.entry(key).or_insert_with(|| next_ro_index), with
\* next_ro_index = read_result_mapping.len(); the map is a function from the
\* Result indices it holds to ro indices.
entry_or_insert(mapping, key) ==
    IF key \in DOMAIN mapping THEN mapping
    ELSE [k \in DOMAIN mapping \cup {key} |->
            IF k = key THEN Cardinality(DOMAIN mapping) ELSE mapping[k]]

\* What a pattern function returns: Ok(Some(..)), Ok(None) or Err, with the
\* context as the call left it.
Matched(ctx) == [status |-> "Some", ctx |-> ctx]
NotMatched(ctx) == [status |-> "None", ctx |-> ctx]
Failed(ctx) == [status |-> "Err", ctx |-> ctx]

\* Stems (the text between two double underscores) that hold an underscore.
StemsWithUnderscore == {"read_result", "qubit_release"}

\* The concatenation of the optional groups (__ctl)?(__adj)?(__body)?
OptionalGroups(controlled, adjoint, body) ==
    (IF controlled THEN <<"ctl">> ELSE <<>>)
    \o (IF adjoint THEN <<"adj">> ELSE <<>>)
    \o (IF body THEN <<"body">> ELSE <<>>)

\* QIS_INTRINSIC_REGEX:
\* ^__quantum__qis__(?P<operation>[^_]+)(?P<controlled>__ctl)?(?P<adjoint>__adj)?(__body)?$
QIS_INTRINSIC_REGEX(function_name) ==
    /\ function_name.family = "qis"
    /\ function_name.stem \notin StemsWithUnderscore
    /\ \E c, a, b \in BOOLEAN : function_name.suffix = OptionalGroups(c, a, b)

\* captures.name("controlled").is_some() and captures.name("adjoint").is_some()
CaptureControlled(function_name) ==
    \E a, b \in BOOLEAN : function_name.suffix = OptionalGroups(TRUE, a, b)

\* A slip: the adjoint group is seen only in front of __body.
CaptureAdjointBeforeBody(function_name) ==
    \E c \in BOOLEAN : function_name.suffix = OptionalGroups(c, TRUE, TRUE)

CaptureAdjoint(function_name) ==
    \E c, b \in BOOLEAN : function_name.suffix = OptionalGroups(c, TRUE, b)

\* RT_RECORD_OUTPUT_INTRINSIC_REGEX: ^__quantum__rt__(?P<record_type>.+)_record_output$
RT_RECORD_OUTPUT_INTRINSIC_REGEX(function_name) ==
    /\ function_name.family = "rt"
    /\ function_name.suffix = <<"record_output">>

ReadResultBody == FnName("qis", "read_result", <<"body">>)

\* get_qis_function_arguments succeeds when every operand before the callee
\* is a %Qubit* / %Result* pointer or a double.
get_qis_function_arguments_ok(instruction) ==
    \A i \in 1..Len(instruction.args) :
        instruction.args[i].kind \in {"Qubit", "Result", "Parameter"}

\* match_qis_argument!(variant, arguments, index, ..) is Ok; index counts from 0.
match_qis_argument(variant, arguments, index) ==
    /\ index + 1 <= Len(arguments)
    /\ arguments[index + 1].kind = variant

\* A slip: every appearance of a value gets a new slot.
get_quil_parameter_index_no_reuse(ctx, float_value) ==
    [ctx |-> [ctx EXCEPT !.parameters = Append(@, float_value)],
     index |-> Len(ctx.parameters)]

\* get_quil_parameter_index: the position of the value in parameters, which
\* gets the value appended when it is not there.
get_quil_parameter_index(ctx, float_value) ==
    IF \E i \in 1..Len(ctx.parameters) : ctx.parameters[i] = float_value
    THEN [ctx |-> ctx,
          index |-> (CHOOSE i \in 1..Len(ctx.parameters) :
                        /\ ctx.parameters[i] = float_value
                        /\ \A j \in 1..(i - 1) : ctx.parameters[j] # float_value) - 1]
    ELSE [ctx |-> [ctx EXCEPT !.parameters = Append(@, float_value)],
          index |-> Len(ctx.parameters)]

\* A slip: a constant is given a slot like any other value.
get_quil_parameter_expression_no_literal(ctx, float_value) ==
    LET r == get_quil_parameter_index(ctx, float_value)
    IN  [ctx |-> r.ctx, expression |-> Address(PARAMETER_MEMORY_REGION_NAME, r.index)]

\* get_quil_parameter_expression: a constant is a number, any other value
\* the address of its slot in __qir_param.
get_quil_parameter_expression(ctx, float_value) ==
    IF float_value.is_const
    THEN [ctx |-> ctx, expression |-> Number(float_value.val)]
    ELSE LET r == get_quil_parameter_index(ctx, float_value)
         IN  [ctx |-> r.ctx,
              expression |-> Address(PARAMETER_MEMORY_REGION_NAME, r.index)]

RECURSIVE GateParameters(_, _, _, _, _)
\* (0..parameter_count).map(..).collect::<Result<Vec<Expression>>>() of
\* add_gate_instruction: stops at the first argument that is no Parameter.
GateParameters(ctx, arguments, arg_index, parameter_count, acc) ==
    IF arg_index >= parameter_count
    THEN [ok |-> TRUE, ctx |-> ctx, parameters |-> acc]
    ELSE IF ~match_qis_argument("Parameter", arguments, arg_index)
    THEN [ok |-> FALSE, ctx |-> ctx, parameters |-> acc]
    ELSE LET r == get_quil_parameter_expression(ctx, arguments[arg_index + 1])
         IN  GateParameters(r.ctx, arguments, arg_index + 1, parameter_count,
                            Append(acc, r.expression))

\* The modifiers add_gate_instruction gives the gate.
GateModifiers(adjoint, controlled) ==
    (IF adjoint THEN <<"DAGGER">> ELSE <<>>)
    \o (IF controlled THEN <<"CONTROLLED">> ELSE <<>>)

add_gate_instruction(ctx, arguments, name, adjoint, controlled, parameter_count, qubit_count) ==
    LET ps == GateParameters(ctx, arguments, 0, parameter_count, <<>>)
        qubits_ok ==
            \A arg_index \in parameter_count..(parameter_count + qubit_count - 1) :
                match_qis_argument("Qubit", arguments, arg_index)
        qubits == [i \in 1..qubit_count |-> arguments[parameter_count + i].val]
    IN  IF ~ps.ok \/ ~qubits_ok
        THEN Failed(ps.ctx)
        ELSE Matched([ps.ctx EXCEPT !.quil_program =
                add_instruction(@, Gate(name, ps.parameters, qubits,
                                        GateModifiers(adjoint, controlled)))])

\* A slip: the toffoli arm names the gate after the intrinsic.
GateArmsNamedAfterIntrinsic ==
    [swap |-> <<"SWAP", 0, 2>>, toffoli |-> <<"TOFFOLI", 0, 3>>, cnot |-> <<"CNOT", 0, 2>>,
     cz |-> <<"CZ", 0, 2>>, h |-> <<"H", 0, 1>>, rx |-> <<"RX", 1, 1>>,
     ry |-> <<"RY", 1, 1>>, rz |-> <<"RZ", 1, 1>>, s |-> <<"S", 0, 1>>,
     t |-> <<"T", 0, 1>>, x |-> <<"X", 0, 1>>, y |-> <<"Y", 0, 1>>, z |-> <<"Z", 0, 1>>]

\* The arms of `match operation` that add a gate: Quil name, parameter_count,
\* qubit_count.
GateArms ==
    [swap |-> <<"SWAP", 0, 2>>, toffoli |-> <<"CCNOT", 0, 3>>, cnot |-> <<"CNOT", 0, 2>>,
     cz |-> <<"CZ", 0, 2>>, h |-> <<"H", 0, 1>>, rx |-> <<"RX", 1, 1>>,
     ry |-> <<"RY", 1, 1>>, rz |-> <<"RZ", 1, 1>>, s |-> <<"S", 0, 1>>,
     t |-> <<"T", 0, 1>>, x |-> <<"X", 0, 1>>, y |-> <<"Y", 0, 1>>, z |-> <<"Z", 0, 1>>]

\* The "mz" arm.
measure_instruction(ctx, arguments) ==
    IF ~match_qis_argument("Qubit", arguments, 0) \/ ~match_qis_argument("Result", arguments, 1)
    THEN Failed(ctx)
    ELSE LET qubit == arguments[1].val
             result == arguments[2].val
             mapping == entry_or_insert(ctx.read_result_mapping, result)
             ro_buffer_index == mapping[result]
         IN  Matched([ctx EXCEPT
                !.read_result_mapping = mapping,
                !.quil_program = add_instruction(@, Measurement(qubit, ro_buffer_index))])

\* The branch for __quantum__qis__read_result__body.
read_result_instruction(ctx, instruction, position) ==
    IF ~get_qis_function_arguments_ok(instruction) THEN Failed(ctx)
    ELSE IF ~match_qis_argument("Result", instruction.args, 0) THEN Failed(ctx)
    ELSE LET result_index == instruction.args[1].val
         IN  IF result_index \notin DOMAIN ctx.read_result_mapping THEN Failed(ctx)
             ELSE Matched([ctx EXCEPT
                    !.readout_instruction_mapping =
                        Append(@, <<ctx.read_result_mapping[result_index], position>>),
                    !.instructions_to_remove = Append(@, position)])

\* quantum_instruction; position is the place of the instruction in the block.
quantum_instruction(ctx, instruction, position) ==
    IF instruction.opcode # "Call" THEN NotMatched(ctx)
    ELSE IF QIS_INTRINSIC_REGEX(instruction.callee)
    THEN IF ~get_qis_function_arguments_ok(instruction) THEN Failed(ctx)
         ELSE LET operation == instruction.callee.stem
                  adjoint == CaptureAdjoint(instruction.callee)
                  controlled == CaptureControlled(instruction.callee)
                  arm ==
                    IF operation \in DOMAIN GateArms
                    THEN add_gate_instruction(ctx, instruction.args, GateArms[operation][1],
                            adjoint, controlled, GateArms[operation][2], GateArms[operation][3])
                    ELSE IF operation = "reset"
                    THEN Matched([ctx EXCEPT !.use_active_reset = TRUE])
                    ELSE IF operation = "mz"
                    THEN measure_instruction(ctx, instruction.args)
                    ELSE NotMatched(ctx)
              IN  IF arm.status = "Some"
                  THEN Matched([arm.ctx EXCEPT !.instructions_to_remove = Append(@, position)])
                  ELSE arm
    ELSE IF instruction.callee = ReadResultBody
    THEN read_result_instruction(ctx, instruction, position)
    ELSE NotMatched(ctx)

\* A table of record types that pushes TupleStart for tuple_end.
RecordEventsTupleEndAsStart ==
    [tuple_start |-> "TupleStart", tuple_end |-> "TupleStart",
     array_start |-> "ArrayStart", array_end |-> "ArrayEnd"]

\* The record types of rt_record_instruction that push one event.
RecordEvents ==
    [tuple_start |-> "TupleStart", tuple_end |-> "TupleEnd",
     array_start |-> "ArrayStart", array_end |-> "ArrayEnd"]

Event(tag, offset) == [tag |-> tag, offset |-> offset]

\* rt_record_instruction
rt_record_instruction(ctx, instruction) ==
    IF instruction.opcode # "Call" THEN NotMatched(ctx)
    ELSE IF ~RT_RECORD_OUTPUT_INTRINSIC_REGEX(instruction.callee) THEN NotMatched(ctx)
    ELSE LET record_type == instruction.callee.stem
         IN  IF record_type = "result"
             THEN IF ~get_qis_function_arguments_ok(instruction) THEN Failed(ctx)
                  ELSE IF ~match_qis_argument("Result", instruction.args, 0) THEN Failed(ctx)
                  ELSE LET result_index == instruction.args[1].val
                           mapping == entry_or_insert(ctx.read_result_mapping, result_index)
                       IN  Matched([ctx EXCEPT
                                !.read_result_mapping = mapping,
                                !.recorded_output =
                                    Append(@, Event("ResultReadoutOffset", mapping[result_index]))])
             ELSE IF record_type \in {"bool", "integer", "double"} THEN Failed(ctx)
             ELSE IF record_type \in DOMAIN RecordEvents
             THEN Matched([ctx EXCEPT
                    !.recorded_output = Append(@, Event(RecordEvents[record_type], 0))])
             ELSE NotMatched(ctx)

\* shot_count_loop_start: a phi is the loop start.
shot_count_loop_start(ctx, instruction, position) ==
    IF instruction.opcode = "Phi"
    THEN Matched([ctx EXCEPT !.initial_instruction = Some(position)])
    ELSE NotMatched(ctx)

\* integer_value_to_u64 of an operand that operand_to_integer accepted
integer_value_to_u64(value) ==
    IF value.vk = "const" /\ value.n >= 0 THEN Some(value.n) ELSE NoValue

\* A slip: any non-negative constant increment is taken.
shot_count_increment_is_constant(instruction) ==
    /\ instruction.ints[2].vk # "nonint"
    /\ integer_value_to_u64(instruction.ints[2]).some

\* operand 1 of the add is the integer constant 1
shot_count_increment_is_1(instruction) ==
    /\ instruction.ints[2].vk # "nonint"
    /\ integer_value_to_u64(instruction.ints[2]) = Some(1)

\* A conversion that takes the bits of a negative constant as they are.
u64_from_any_i64(n) == Some(n)

\* u64::try_from on the sign-extended constant of the icmp.
u64_try_from_i64(n) == IF n < 0 THEN NoValue ELSE Some(n)

\* shot_count_loop_end: add .., 1 / icmp / br
shot_count_loop_end(ctx, instruction) ==
    IF instruction.opcode # "Add" THEN NotMatched(ctx)
    ELSE IF ~shot_count_increment_is_1(instruction) THEN NotMatched(ctx)
         ELSE IF instruction.tail = <<>> THEN NotMatched(ctx)
         ELSE LET next_instruction == instruction.tail[1] IN
              IF next_instruction.opcode = "ICmp" /\ next_instruction.ints[1].vk # "nonint"
              THEN LET matches_shot_count_loop_start ==
                            /\ ctx.initial_instruction.some
                            /\ next_instruction.ints[1] = InstValue(ctx.initial_instruction.v)
                       operand == next_instruction.ints[2]
                   IN
                   IF ~matches_shot_count_loop_start THEN Failed(ctx)
                   ELSE IF operand.vk = "nonint" THEN Failed(ctx)
                   ELSE IF operand.vk # "const" THEN Failed(ctx)
                   ELSE IF ~u64_try_from_i64(operand.n).some THEN Failed(ctx)
                   ELSE IF Len(instruction.tail) < 2 THEN Failed(ctx)
                   ELSE LET final_instruction == instruction.tail[2]
                            branching_on_loop_variable == final_instruction.first_use
                        IN  IF final_instruction.opcode = "Br" /\ branching_on_loop_variable
                            THEN Matched([ctx EXCEPT
                                    !.shot_count = u64_try_from_i64(operand.n),
                                    !.next_basic_block = final_instruction.else_target])
                            ELSE Failed(ctx)
              ELSE Matched(ctx)

\* get_dynamic_parameters
get_dynamic_parameters(ctx) == SelectSeq(ctx.parameters, LAMBDA v : ~v.is_const)

\* A get_program_data that does not look at the body of the program.
shot_count_program_data_any_body(ctx) == ctx.shot_count.some

\* ShotCountPatternMatchContext::get_program_data is Some
shot_count_program_data(ctx) ==
    /\ ctx.shot_count.some
    /\ Len(body_instructions(ctx.quil_program)) # 0

(***************************************************************************)
(* The Quil emitter (build_quil_program of shot_count_block/quil.rs and    *)
(* unitary/quil.rs; the same statements open insert_quil_program).         *)
(***************************************************************************)

NoPragma == [some |-> FALSE, v |-> ""]

\* A slip: the instruction is added after the copy.
append_after_copy(program, instruction) ==
    add_instruction(AddAll(NewProgram, to_instructions(program)), instruction)

\* "Prepend ... to the program via copy": a new program gets the instruction,
\* then every instruction of the old program, declarations included.
prepend(program, instruction) ==
    AddAll(add_instruction(NewProgram, instruction), to_instructions(program))

\* A program that declares one parameter more than the context holds.
finish_program_one_more(ctx, rewiring_pragma) ==
    LET program == ctx.quil_program
        with_ro ==
            add_instruction(program,
                Declaration("ro", "Bit", Cardinality(DOMAIN ctx.read_result_mapping)))
        with_params ==
            IF Len(get_dynamic_parameters(ctx)) # 0
            THEN add_instruction(with_ro,
                    Declaration(PARAMETER_MEMORY_REGION_NAME, "Real",
                                Len(get_dynamic_parameters(ctx)) + 1))
            ELSE with_ro
        with_reset ==
            IF ctx.use_active_reset THEN prepend(with_params, Reset) ELSE with_params
    IN  IF rewiring_pragma.some
        THEN prepend(with_reset,
                     Pragma("INITIAL_REWIRING", <<"\"", rewiring_pragma.v, "\"">>))
        ELSE with_reset

\* The declarations and prologue added to the accumulated program.
finish_program(ctx, rewiring_pragma) ==
    LET program == ctx.quil_program
        with_ro ==
            add_instruction(program,
                Declaration("ro", "Bit", Cardinality(DOMAIN ctx.read_result_mapping)))
        with_params ==
            IF Len(get_dynamic_parameters(ctx)) # 0
            THEN add_instruction(with_ro,
                    Declaration(PARAMETER_MEMORY_REGION_NAME, "Real",
                                Len(get_dynamic_parameters(ctx))))
            ELSE with_ro
        with_reset ==
            IF ctx.use_active_reset THEN prepend(with_params, Reset) ELSE with_params
    IN  IF rewiring_pragma.some
        THEN prepend(with_reset,
                     Pragma("INITIAL_REWIRING", <<"\"", rewiring_pragma.v, "\"">>))
        ELSE with_reset

NoOutput ==
    [ok |-> FALSE, program |-> NewProgram, shot_count |-> NoValue, recorded_output |-> <<>>]

\* build_quil_program, shot-count form: an error unless get_program_data is Some.
build_quil_program_shot_count(ctx, rewiring_pragma) ==
    IF shot_count_program_data(ctx)
    THEN [ok |-> TRUE, program |-> finish_program(ctx, rewiring_pragma),
          shot_count |-> ctx.shot_count, recorded_output |-> ctx.recorded_output]
    ELSE NoOutput

\* build_quil_program, unitary form: always Ok, no shot count.
build_quil_program_unitary(ctx, rewiring_pragma) ==
    [ok |-> TRUE, program |-> finish_program(ctx, rewiring_pragma),
     shot_count |-> NoValue, recorded_output |-> ctx.recorded_output]

(***************************************************************************)
(* The modules translated: which calls their blocks hold, which matcher    *)
(* runs and with which options.                                            *)
(***************************************************************************)

Qis(stem, suffix) == FnName("qis", stem, suffix)

RecordOutput(record_type) == FnName("rt", record_type, <<"record_output">>)

\* The configurations: program, format and ContextOptions.rewiring_pragma.
Config(program, format, pragma) ==
    [program |-> program, format |-> format,
     rewiring_pragma |-> IF pragma = "" THEN NoPragma ELSE [some |-> TRUE, v |-> pragma]]

Fixtures ==
    {Config("shot_count_loop", "shot_count", ""),
     Config("measure_sparse", "shot_count", ""),
     Config("measure_sparse", "unitary", "PARTIAL"),
     Config("parametric", "shot_count", "PARTIAL"),
     Config("parametric", "unitary", ""),
     Config("pauli_xyz", "shot_count", ""),
     Config("s_and_adjoint_s", "unitary", ""),
     Config("t_and_adjoint_t", "shot_count", ""),
     Config("toffoli", "unitary", ""),
     Config("swap", "shot_count", ""),
     Config("reset", "shot_count", "PARTIAL"),
     Config("reset", "shot_count", ""),
     Config("reset", "unitary", "PARTIAL"),
     Config("bell_state", "unitary", ""),
     Config("record_output", "shot_count", "")}

\* The call instructions a block of each program may hold.
Calls(program) ==
    CASE program = "shot_count_loop" ->
            {Call(Qis("h", <<"body">>), <<QubitPtr(0)>>),
             Call(Qis("mz", <<"body">>), <<QubitPtr(0), ResultPtr(0)>>),
             Call(ReadResultBody, <<ResultPtr(0)>>)}
      [] program = "measure_sparse" ->
            {Call(Qis("mz", <<"body">>), <<QubitPtr(0), ResultPtr(r)>>) : r \in {3, 7, 1}}
            \cup {Call(RecordOutput("result"), <<ResultPtr(r)>>) : r \in {7, 5}}
            \cup {Call(ReadResultBody, <<ResultPtr(7)>>)}
      [] program = "parametric" ->
            {Call(Qis("rz", <<"body">>), <<f, QubitPtr(0)>>) :
                f \in {SsaFloat(1), SsaFloat(2), ConstFloat(3)}}
            \cup {Call(Qis("rx", <<"body">>), <<SsaFloat(1), QubitPtr(1)>>),
                  Call(Qis("ry", <<"body">>), <<ConstFloat(4), QubitPtr(1)>>),
                  Call(Qis("ry", <<"body">>), <<QubitPtr(1), SsaFloat(2)>>)}
      [] program = "pauli_xyz" ->
            {Call(Qis(op, <<"body">>), <<QubitPtr(0)>>) : op \in {"x", "y", "z"}}
            \cup {Call(Qis("x", <<"body">>), <<QubitPtr(1)>>)}
      [] program = "s_and_adjoint_s" ->
            {Call(Qis("s", sfx), <<QubitPtr(0)>>) :
                sfx \in {<<>>, <<"body">>, <<"adj">>, <<"adj", "body">>, <<"body", "adj">>}}
      [] program = "t_and_adjoint_t" ->
            {Call(Qis("t", sfx), <<QubitPtr(1)>>) :
                sfx \in {<<"body">>, <<"ctl">>, <<"ctl", "adj">>, <<"adj", "ctl">>,
                         <<"ctl", "adj", "body">>}}
      [] program = "toffoli" ->
            {Call(Qis("toffoli", <<"body">>), qs) :
                qs \in {<<QubitPtr(0), QubitPtr(1), QubitPtr(2)>>,
                        <<QubitPtr(2), QubitPtr(0), QubitPtr(1)>>,
                        <<QubitPtr(0), QubitPtr(1)>>,
                        <<QubitPtr(0), QubitPtr(1), IntOperand(2)>>}}
            \cup {Call(Qis("h", <<"ctl">>), <<QubitPtr(2)>>)}
      [] program = "swap" ->
            {Call(Qis(op, <<"body">>), <<QubitPtr(0), QubitPtr(1)>>) :
                op \in {"swap", "cnot", "cz"}}
            \cup {Call(Qis("swap", <<"body">>), <<QubitPtr(1), QubitPtr(0)>>)}
      [] program = "reset" ->
            {Call(Qis("reset", <<"body">>), <<QubitPtr(0)>>),
             Call(Qis("x", <<"body">>), <<QubitPtr(0)>>),
             Call(Qis("rx", <<"body">>), <<SsaFloat(1), QubitPtr(1)>>),
             Call(Qis("mz", <<"body">>), <<QubitPtr(0), ResultPtr(2)>>)}
      [] program = "bell_state" ->
            {Call(Qis("h", <<"body">>), <<QubitPtr(0)>>),
             Call(Qis("mz", <<"body">>), <<QubitPtr(0), ResultPtr(0)>>),
             Call(RecordOutput("tuple_start"), <<>>),
             Call(RecordOutput("result"), <<ResultPtr(0)>>),
             Call(RecordOutput("tuple_end"), <<>>)}
      [] program = "record_output" ->
            {Call(RecordOutput(k), <<>>) :
                k \in {"array_start", "array_end", "bool", "qubit_release"}}
            \cup {Call(Qis("h", <<"body">>), <<QubitPtr(0)>>),
                  Call(Qis("foo", <<"body">>), <<QubitPtr(0)>>),
                  Call(FnName("", "helper", <<>>), <<>>)}

\* The add instructions (with what follows them) a shot-count block may
\* hold; phi is the position of the loop-start phi.
LoopTail(op0, op1, first_use) == <<ICmp(op0, op1), CondBr(first_use, "exit")>>

Adds(program, phi) ==
    IF program = "shot_count_loop"
    THEN {Add(InstValue(phi), IntConst(1), tail) :
            tail \in {LoopTail(InstValue(phi), IntConst(0), TRUE),
                      LoopTail(InstValue(phi), IntConst(1000), TRUE),
                      LoopTail(InstValue(0), IntConst(1000), TRUE),
                      LoopTail(InstValue(phi), IntConst(-1), TRUE),
                      LoopTail(InstValue(phi), InstValue(0), TRUE),
                      LoopTail(InstValue(phi), NotInt, TRUE),
                      LoopTail(InstValue(phi), IntConst(1000), FALSE),
                      LoopTail(NotInt, NotInt, TRUE),
                      <<ICmp(InstValue(phi), IntConst(1000))>>,
                      <<ICmp(InstValue(phi), IntConst(1000)), Plain("Other")>>,
                      <<Plain("Other")>>,
                      <<>>}}
         \cup {Add(InstValue(phi), op1, LoopTail(InstValue(phi), IntConst(1000), TRUE)) :
                op1 \in {IntConst(2), IntConst(-1), InstValue(0), NotInt}}
         \cup {Add(InstValue(phi), IntConst(2), <<>>),
               Add(InstValue(0), IntConst(1), LoopTail(InstValue(phi), IntConst(1000), TRUE))}
    ELSE {Add(InstValue(phi), IntConst(1), LoopTail(InstValue(phi), IntConst(1000), TRUE))}

\* The instructions that can stand under the cursor.
Instructions ==
    IF fixture.format = "unitary"
    THEN Calls(fixture.program) \cup {Plain("Return")}
         \cup (IF fixture.program = "bell_state" THEN {Plain("Other")} ELSE {})
    ELSE IF ~pattern_context.initial_instruction.some
    THEN {Plain("Phi")}
         \cup (IF fixture.program = "shot_count_loop"
               THEN {Plain("Other"), Call(Qis("h", <<"body">>), <<QubitPtr(0)>>)} ELSE {})
    ELSE Calls(fixture.program) \cup Adds(fixture.program, pattern_context.initial_instruction.v)
         \cup (IF fixture.program = "shot_count_loop"
               THEN {Plain("Other"), Plain("Phi")} ELSE {})

(***************************************************************************)
(* One iteration of the scan loop of from_basic_block.                     *)
(***************************************************************************)

Iteration(branch, ctx) == [branch |-> branch, ctx |-> ctx]

PushFront(ctx, event) == [ctx EXCEPT !.recorded_output = <<event>> \o @]

Push(ctx, event) == [ctx EXCEPT !.recorded_output = Append(@, event)]

\* ShotCountPatternMatchContext::from_basic_block, body of the while loop.
\* In transpile mode the callback for a nested call is
\* fail_on_nested_function_call, which is an error.
shot_count_iteration(ctx, instruction, position) ==
    IF ~ctx.initial_instruction.some
    THEN LET start == shot_count_loop_start(ctx, instruction, position)
         IN  IF start.status = "Some"
             THEN Iteration("loop_start", Push(start.ctx, Event("ShotStart", 0)))
             ELSE Iteration("before_start", ctx)
    ELSE LET quantum == quantum_instruction(ctx, instruction, position)
             record == rt_record_instruction(ctx, instruction)
             end == shot_count_loop_end(ctx, instruction)
         IN  IF quantum.status = "Err" THEN Iteration("error", quantum.ctx)
             ELSE IF quantum.status = "Some" THEN Iteration("quantum", quantum.ctx)
             ELSE IF record.status = "Err" THEN Iteration("error", record.ctx)
             ELSE IF record.status = "Some" THEN Iteration("record", record.ctx)
             ELSE IF end.status = "Err" THEN Iteration("error", end.ctx)
             ELSE IF end.status = "Some"
             THEN Iteration("loop_end", Push(end.ctx, Event("ShotEnd", 0)))
             ELSE IF instruction.opcode = "Call" /\ Len(instruction.args) = 0
             THEN Iteration("nested_call", ctx)
             ELSE Iteration("left_in_place", ctx)

\* A slip: an instruction that is no intrinsic and no ret is passed over.
unitary_iteration_skipping(ctx, instruction, position) ==
    LET quantum == quantum_instruction(ctx, instruction, position)
        record == rt_record_instruction(ctx, instruction)
    IN  IF quantum.status = "Err" THEN Iteration("error", quantum.ctx)
        ELSE IF quantum.status = "Some" THEN Iteration("quantum", quantum.ctx)
        ELSE IF record.status = "Err" THEN Iteration("error", record.ctx)
        ELSE IF record.status = "Some" THEN Iteration("record", record.ctx)
        ELSE IF instruction.opcode = "Return" THEN Iteration("return", ctx)
        ELSE Iteration("quantum", ctx)

\* UnitaryPatternMatchContext::from_basic_block, body of the while loop.
unitary_iteration(ctx, instruction, position) ==
    LET quantum == quantum_instruction(ctx, instruction, position)
        record == rt_record_instruction(ctx, instruction)
    IN  IF quantum.status = "Err" THEN Iteration("error", quantum.ctx)
        ELSE IF quantum.status = "Some" THEN Iteration("quantum", quantum.ctx)
        ELSE IF record.status = "Err" THEN Iteration("error", record.ctx)
        ELSE IF record.status = "Some" THEN Iteration("record", record.ctx)
        ELSE IF instruction.opcode = "Return" THEN Iteration("return", ctx)
        ELSE Iteration("forbidden", ctx)

from_basic_block_iteration(ctx, instruction, position) ==
    IF fixture.format = "unitary"
    THEN unitary_iteration(ctx, instruction, position)
    ELSE shot_count_iteration(ctx, instruction, position)

(***************************************************************************)
(* The state machine.                                                      *)
(***************************************************************************)

\* A module with no block and no instruction, and a patcher that is not run.
NoModule ==
    [options |-> [cache_executables |-> FALSE, target |-> "Qvm"],
     cfg |-> <<>>, uses |-> <<>>, attached |-> {}, phi_incoming |-> <<>>,
     execution |-> <<>>, readout_calls |-> <<>>, cleanup |-> <<>>,
     quil_programs |-> <<>>, global_strings |-> <<>>,
     populate_executable_array |-> <<>>, entry_calls |-> <<>>]

NoPatcher == [pc |-> "idle", readouts |-> <<>>, instructions |-> <<>>,
              original_next_block |-> "", inserted |-> 0]

Init ==
    /\ fixture \in Fixtures
    /\ pc = "scan"
    /\ scanned = <<>>
    /\ pending = <<>>
    /\ pattern_context = DefaultContext
    /\ output = NoOutput
    /\ original = NoModule
    /\ module = NoModule
    /\ patcher = NoPatcher

\* The instructions that can be under the cursor: the one the loop end
\* already looked at, or any next instruction of the block.
Cursor ==
    IF pending # <<>> THEN {Head(pending)}
    ELSE IF Len(scanned) < MaxScan THEN Instructions
    ELSE {}

\* The loop takes the given branch on the instruction under the cursor.
Takes(instruction, branch) ==
    /\ pc = "scan"
    /\ from_basic_block_iteration(pattern_context, instruction, Len(scanned) + 1).branch = branch
    /\ pattern_context' =
            from_basic_block_iteration(pattern_context, instruction, Len(scanned) + 1).ctx
    /\ scanned' = Append(scanned, instruction)
    /\ UNCHANGED <<fixture, output, original, module, patcher>>

\* The cursor moves to the next instruction.
Continue(instruction) ==
    /\ pc' = "scan"
    /\ pending' = IF pending # <<>> THEN Tail(pending) ELSE instruction.tail

\* The scan ends: with Ok(pattern_context) or with an error.
Stop(result) ==
    /\ pc' = result
    /\ pending' = <<>>

\* A phi opens the loop: ShotStart is recorded.
LoopStart ==
    \E instruction \in Cursor : Takes(instruction, "loop_start") /\ Continue(instruction)

\* Before the loop start any other instruction is passed over.
BeforeLoopStart ==
    \E instruction \in Cursor : Takes(instruction, "before_start") /\ Continue(instruction)

\* A QIS gate, measure, reset or read_result call is consumed.
QuantumInstruction ==
    \E instruction \in Cursor : Takes(instruction, "quantum") /\ Continue(instruction)

\* A record_output call is consumed.
RecordInstruction ==
    \E instruction \in Cursor : Takes(instruction, "record") /\ Continue(instruction)

\* The loop end: ShotEnd is recorded and the scan breaks.
LoopEnd ==
    \E instruction \in Cursor : Takes(instruction, "loop_end") /\ Stop("scanned")

\* A call of a function of the module: the callback fails.
NestedCall ==
    \E instruction \in Cursor : Takes(instruction, "nested_call") /\ Stop("error")

\* Any other instruction of a shot-count block stays in place.
LeftInPlace ==
    \E instruction \in Cursor : Takes(instruction, "left_in_place") /\ Continue(instruction)

\* A matcher returns an error.
MatchError ==
    \E instruction \in Cursor : Takes(instruction, "error") /\ Stop("error")

\* The ret of a unitary block ends the scan.
UnitaryReturn ==
    \E instruction \in Cursor : Takes(instruction, "return") /\ Stop("scanned")

\* Any other instruction of a unitary block is an error.
UnitaryForbidden ==
    \E instruction \in Cursor : Takes(instruction, "forbidden") /\ Stop("error")

\* The block has no further instruction.
EndOfBlock ==
    /\ pc = "scan"
    /\ pending = <<>>
    /\ pc' = "scanned"
    /\ UNCHANGED <<fixture, scanned, pending, pattern_context, output, original, module, patcher>>

\* A transpile that hands the queued instructions to the remover once the
\* program is built.
BuildQuilProgramThenRemove ==
    /\ pc = "scanned"
    /\ output' =
        IF fixture.format = "unitary"
        THEN build_quil_program_unitary(pattern_context, fixture.rewiring_pragma)
        ELSE build_quil_program_shot_count(pattern_context, fixture.rewiring_pragma)
    /\ pc' = IF output'.ok THEN "built" ELSE "not_detected"
    /\ patcher' = [patcher EXCEPT !.pc = "removing",
                                  !.instructions = pattern_context.instructions_to_remove]
    /\ UNCHANGED <<fixture, scanned, pending, pattern_context, original, module>>

\* transpile_basic_block: build_quil_program on the finished context.
BuildQuilProgram ==
    /\ pc = "scanned"
    /\ output' =
        IF fixture.format = "unitary"
        THEN build_quil_program_unitary(pattern_context, fixture.rewiring_pragma)
        ELSE build_quil_program_shot_count(pattern_context, fixture.rewiring_pragma)
    /\ pc' = IF output'.ok THEN "built" ELSE "not_detected"
    /\ UNCHANGED <<fixture, scanned, pending, pattern_context, original, module, patcher>>

Next ==
    \/ LoopStart
    \/ BeforeLoopStart
    \/ QuantumInstruction
    \/ RecordInstruction
    \/ LoopEnd
    \/ NestedCall
    \/ LeftInPlace
    \/ MatchError
    \/ UnitaryReturn
    \/ UnitaryForbidden
    \/ EndOfBlock
    \/ BuildQuilProgram

Spec == Init /\ [][Next]_vars

(***************************************************************************)
(* insert_quil_program (shot_count_block/qir.rs): the rewrite of a block   *)
(* the shot-count matcher has scanned.                                     *)
(*                                                                         *)
(* module.cfg maps a block name to its terminator; module.uses maps an     *)
(* instruction to the instructions that have it as an operand (its use     *)
(* list); module.attached holds the instructions that are in a block.      *)
(***************************************************************************)

\* The block under rewrite and the blocks insert_basic_block_after names.
BlockName == "body"
ExecutionBlock == "body_execution"
CleanupBlock == "body_cleanup"

\* Terminators: br label, br i1 (operand 2 the then target, operand 1 the
\* else target), ret.
Terminator(op, then_block, else_block) ==
    [op |-> op, then_block |-> then_block, else_block |-> else_block]
Branch(target) == Terminator("br", target, "")
ConditionalBranch(then_block, else_block) == Terminator("condbr", then_block, else_block)
Return == Terminator("ret", "", "")

\* Instructions: those of the block by position, those the patcher builds,
\* and an instruction of some other block.
InBlock(position) == [origin |-> "block", n |-> position]
ReadoutBit(k) == [origin |-> "get_readout_bit", n |-> k]
NewPhi == [origin |-> "phi", n |-> 0]
NewBranch == [origin |-> "br", n |-> 0]
Elsewhere == [origin |-> "elsewhere", n |-> 0]

RECURSIVE from_basic_block(_, _, _)
\* ShotCountPatternMatchContext::from_basic_block over a whole block, with
\* transpile_function as the callback (a nested call is no error here).
from_basic_block(ctx, block, position) ==
    IF position > Len(block) THEN [ok |-> TRUE, ctx |-> ctx]
    ELSE LET iteration == shot_count_iteration(ctx, block[position], position)
         IN  IF iteration.branch = "error" THEN [ok |-> FALSE, ctx |-> ctx]
             ELSE IF iteration.branch = "loop_end" THEN [ok |-> TRUE, ctx |-> iteration.ctx]
             ELSE from_basic_block(iteration.ctx, block, position + 1)

\* The instructions between the phi and the add of the blocks rewritten.
PatchBodies ==
    LET h == Call(Qis("h", <<"body">>), <<QubitPtr(0)>>)
        rx == Call(Qis("rx", <<"body">>), <<SsaFloat(1), QubitPtr(0)>>)
        mz == Call(Qis("mz", <<"body">>), <<QubitPtr(0), ResultPtr(0)>>)
        read_result == Call(ReadResultBody, <<ResultPtr(0)>>)
        other == Plain("Other")
        mz_1 == Call(Qis("mz", <<"body">>), <<QubitPtr(0), ResultPtr(1)>>)
        read_result_1 == Call(ReadResultBody, <<ResultPtr(1)>>)
        rx_2 == Call(Qis("rx", <<"body">>), <<SsaFloat(2), QubitPtr(0)>>)
        rx_const == Call(Qis("rx", <<"body">>), <<ConstFloat(1), QubitPtr(0)>>)
    IN  {<<h, mz, read_result, other>>,
         <<rx_2, rx_const, rx, rx_2>>,
         <<mz_1, mz, read_result, read_result_1>>,
         <<rx, mz, read_result, read_result, other>>,
         <<h, other, rx>>,
         <<mz, read_result>>,
         <<other>>}

\* phi, body, add 1 / icmp / br i1
PatchBlock(body, else_block) ==
    <<Plain("Phi")>> \o body
    \o <<Add(InstValue(1), IntConst(1),
             <<ICmp(InstValue(1), IntConst(1000)), CondBr(TRUE, else_block)>>)>>

\* The instructions that may have the value of the call at a position as
\* an operand: later instructions of the block that are no intrinsic, later
\* rotations (their angle), and for read_result an instruction elsewhere.
Users(block, position) ==
    {InBlock(q) : q \in {r \in (position + 1)..(Len(block) - 1) :
                            \/ block[r].opcode = "Other"
                            \/ block[r].callee.stem = "rx"}}
    \cup (IF block[position].callee = ReadResultBody THEN {Elsewhere} ELSE {})

CallPositions(block) == {q \in 1..Len(block) : block[q].opcode = "Call"}

\* The use lists of the instructions of a block as the module gives them.
UseLists(block) ==
    LET all == UNION {Users(block, q) : q \in CallPositions(block)}
        add == Len(block)
    IN  {[v \in {InBlock(q) : q \in 1..(add + 2)} |->
            IF v.n \in CallPositions(block) THEN calls[v.n]
            ELSE IF v.n = 1 THEN {InBlock(add), InBlock(add + 1)}
            ELSE IF v.n = add THEN {InBlock(1)}
            ELSE IF v.n = add + 1 THEN {InBlock(add + 2)}
            ELSE {}] :
         calls \in {f \in [CallPositions(block) -> SUBSET all] :
                        \A q \in CallPositions(block) : f[q] \subseteq Users(block, q)}}

Targets(terminator) == {terminator.then_block, terminator.else_block} \ {""}

\* A clause of a phi: an incoming value and the block it comes from.
Clause(value, block) == [value |-> value, block |-> block]

\* The incoming blocks of the phi: the predecessors of the block.
Predecessors(cfg) ==
    SelectSeq(<<"entry", "other", BlockName>>, LAMBDA b : BlockName \in Targets(cfg[b]))

InitPatch ==
    /\ fixture = Config("reduction", "shot_count", "")
    /\ pc = "patch"
    /\ pending = <<>>
    /\ output = NoOutput
    /\ patcher = [NoPatcher EXCEPT !.pc = "start"]
    /\ \E body \in PatchBodies, then_block, else_block \in {BlockName, "exit", "other"},
          entry_target \in {BlockName, "other"},
          other_terminator \in {Branch(BlockName), Return},
          cache_executables \in BOOLEAN :
        LET block == PatchBlock(body, else_block)
            cfg == [b \in {"entry", BlockName, "exit", "other"} |->
                        CASE b = "entry" -> Branch(entry_target)
                          [] b = BlockName -> ConditionalBranch(then_block, else_block)
                          [] b = "exit" -> Return
                          [] b = "other" -> other_terminator]
        IN  /\ scanned = block
            /\ from_basic_block(DefaultContext, block, 1).ok
            /\ pattern_context = from_basic_block(DefaultContext, block, 1).ctx
            /\ \E uses \in UseLists(block) :
                original =
                    [NoModule EXCEPT
                        !.options = [cache_executables |-> cache_executables,
                                     target |-> IF cache_executables THEN "Qpu" ELSE "Qvm"],
                        !.cfg = cfg,
                        !.uses = uses,
                        !.attached = DOMAIN uses \cup {Elsewhere},
                        !.phi_incoming =
                            [i \in 1..Len(Predecessors(cfg)) |->
                                Clause(IF Predecessors(cfg)[i] = BlockName
                                       THEN InstValue(Len(block)) ELSE IntConst(0),
                                       Predecessors(cfg)[i])]]
            /\ module = original

\* BasicBlock::replace_all_uses_with on the operands of one terminator.
replace_all_uses_with(terminator, old_block, new_block) ==
    [terminator EXCEPT
        !.then_block = IF @ = old_block THEN new_block ELSE @,
        !.else_block = IF @ = old_block THEN new_block ELSE @]

\* const_int of the i32 type keeps the low 32 bits of the u64; the numbers
\* of this model are all below 2^31, where that is the number itself.
ConstI32(n) == n

ExecutionCall(callee, n, value) == [callee |-> callee, n |-> n, value |-> value]

NoFloat == [kind |-> "", val |-> 0, is_const |-> TRUE]

\* A patcher that sets the parameters before it wraps the executable in
\* shots, and frees the result right after the failure test.
ExecutionCallsFreedAtOnce(ctx, options, quil_program_index) ==
    <<IF options.cache_executables
      THEN ExecutionCall("get_executable", ConstI32(quil_program_index), NoFloat)
      ELSE ExecutionCall("executable_from_quil", 0, NoFloat)>>
    \o [i \in 1..Len(ctx.parameters) |->
            ExecutionCall("set_param", ConstI32(i - 1), ctx.parameters[i])]
    \o <<ExecutionCall("wrap_in_shots", ConstI32(ctx.shot_count.v), NoFloat),
         ExecutionCall(IF options.target = "Qvm" THEN "execute_on_qvm" ELSE "execute_on_qpu",
                       0, NoFloat),
         ExecutionCall("panic_on_failure", 0, NoFloat),
         ExecutionCall("free_execution_result", 0, NoFloat)>>

\* The calls built into the execution block, in order.
ExecutionCalls(ctx, options, quil_program_index) ==
    <<IF options.cache_executables
      THEN ExecutionCall("get_executable", ConstI32(quil_program_index), NoFloat)
      ELSE ExecutionCall("executable_from_quil", 0, NoFloat),
      ExecutionCall("wrap_in_shots", ConstI32(ctx.shot_count.v), NoFloat)>>
    \o [i \in 1..Len(ctx.parameters) |->
            ExecutionCall("set_param", ConstI32(i - 1), ctx.parameters[i])]
    \o <<ExecutionCall(IF options.target = "Qvm" THEN "execute_on_qvm" ELSE "execute_on_qpu",
                       0, NoFloat),
         ExecutionCall("panic_on_failure", 0, NoFloat)>>

\* The patcher goes on to the given position.
Goes(from, to) ==
    /\ patcher.pc = from
    /\ patcher' = [patcher EXCEPT !.pc = to]

\* A patcher that stores the text of the program before it looks for
\* program data.
NotInsertedAfterProgramText ==
    /\ Goes("start", "not_inserted")
    /\ ~shot_count_program_data(pattern_context)
    /\ module' = [module EXCEPT !.quil_programs =
                        Append(@, finish_program(pattern_context, fixture.rewiring_pragma))]
    /\ UNCHANGED <<fixture, pc, scanned, pending, pattern_context, output, original>>

\* No program data: the module is left as it is.
NotInserted ==
    /\ Goes("start", "not_inserted")
    /\ ~shot_count_program_data(pattern_context)
    /\ UNCHANGED <<fixture, pc, scanned, pending, pattern_context, output, original, module>>

\* The program is finished, the execution block inserted after the block,
\* every use of the block turned to the execution block, and the execution
\* block filled with the calls and a branch to the block.
InsertExecutionBlock ==
    /\ patcher.pc = "start"
    /\ shot_count_program_data(pattern_context)
    /\ LET program == finish_program(pattern_context, fixture.rewiring_pragma)
           cached == module.options.cache_executables
       IN  module' =
            [module EXCEPT
                !.cfg = [b \in DOMAIN @ \cup {ExecutionBlock} |->
                            IF b = ExecutionBlock THEN Branch(BlockName)
                            ELSE replace_all_uses_with(@[b], BlockName, ExecutionBlock)],
                !.quil_programs = IF cached THEN Append(@, program) ELSE @,
                !.global_strings = IF cached THEN @ ELSE Append(@, to_instructions(program)),
                !.execution =
                    ExecutionCalls(pattern_context, module.options, Len(module.quil_programs))]
    /\ patcher' = [patcher EXCEPT !.pc = "execution",
                                  !.readouts = pattern_context.readout_instruction_mapping]
    /\ UNCHANGED <<fixture, pc, scanned, pending, pattern_context, output, original>>

\* A turn that gives get_readout_bit the place of the pair in
\* readout_instruction_mapping as readout index, built after the phi, with the phi as shot index, and takes over every use
\* of the read_result call.
ReplaceReadoutByPlace ==
    /\ patcher.pc = "execution"
    /\ patcher.readouts # <<>>
    /\ LET readout_index == patcher.inserted
           instruction == InBlock(Head(patcher.readouts)[2])
           shot_index == InBlock(pattern_context.initial_instruction.v)
           new_instruction == ReadoutBit(patcher.inserted + 1)
       IN  module' =
            [module EXCEPT
                !.uses = [v \in DOMAIN @ \cup {new_instruction} |->
                            IF v = new_instruction THEN @[instruction]
                            ELSE IF v = instruction THEN {}
                            ELSE IF v = shot_index THEN @[v] \cup {new_instruction}
                            ELSE @[v]],
                !.attached = @ \cup {new_instruction},
                !.readout_calls = Append(@, <<new_instruction, readout_index>>)]
    /\ patcher' = [patcher EXCEPT !.readouts = Tail(@), !.inserted = @ + 1]
    /\ UNCHANGED <<fixture, pc, scanned, pending, pattern_context, output, original>>

\* One turn of the loop over readout_instruction_mapping: get_readout_bit is
\* built after the phi, with the phi as shot index, and takes over every use
\* of the read_result call.
ReplaceReadout ==
    /\ patcher.pc = "execution"
    /\ patcher.readouts # <<>>
    /\ LET readout_index == Head(patcher.readouts)[1]
           instruction == InBlock(Head(patcher.readouts)[2])
           shot_index == InBlock(pattern_context.initial_instruction.v)
           new_instruction == ReadoutBit(patcher.inserted + 1)
       IN  module' =
            [module EXCEPT
                !.uses = [v \in DOMAIN @ \cup {new_instruction} |->
                            IF v = new_instruction THEN @[instruction]
                            ELSE IF v = instruction THEN {}
                            ELSE IF v = shot_index THEN @[v] \cup {new_instruction}
                            ELSE @[v]],
                !.attached = @ \cup {new_instruction},
                !.readout_calls = Append(@, <<new_instruction, readout_index>>)]
    /\ patcher' = [patcher EXCEPT !.readouts = Tail(@), !.inserted = @ + 1]
    /\ UNCHANGED <<fixture, pc, scanned, pending, pattern_context, output, original>>

\* get_conditional_branch_else_target: operand 1 of the terminator.
get_conditional_branch_else_target(terminator) == terminator.else_block

\* The cleanup block is inserted after the block: free_execution_result,
\* then a branch to the else target the terminator has at this point.
InsertCleanupBlock ==
    /\ patcher.pc = "execution"
    /\ patcher.readouts = <<>>
    /\ LET original_next_block == get_conditional_branch_else_target(module.cfg[BlockName])
       IN  /\ module' =
                [module EXCEPT
                    !.cfg = [b \in DOMAIN @ \cup {CleanupBlock} |->
                                IF b = CleanupBlock THEN Branch(original_next_block) ELSE @[b]],
                    !.cleanup = <<ExecutionCall("free_execution_result", 0, NoFloat)>>]
           /\ patcher' = [patcher EXCEPT !.pc = "cleanup",
                                         !.original_next_block = original_next_block]
    /\ UNCHANGED <<fixture, pc, scanned, pending, pattern_context, output, original>>

\* replace_conditional_branch_target(terminator, Some(then), Some(else)): a
\* new br i1 on the same comparison is built before the terminator, which is
\* then removed from the block.
replace_conditional_branch_target(terminator, replace_then, replace_else) ==
    ConditionalBranch(IF replace_then.some THEN replace_then.v ELSE terminator.then_block,
                      IF replace_else.some THEN replace_else.v ELSE terminator.else_block)

\* The terminator of the block gets the block itself as then target and the
\* cleanup block as else target.
ReplaceConditionalBranchTarget ==
    /\ Goes("cleanup", "retargeted")
    /\ LET terminator == InBlock(Len(scanned) + 2)
           comparison == InBlock(Len(scanned) + 1)
       IN  module' =
            [module EXCEPT
                !.cfg[BlockName] =
                    replace_conditional_branch_target(@, [some |-> TRUE, v |-> BlockName],
                                                      [some |-> TRUE, v |-> CleanupBlock]),
                !.uses[comparison] = @ \cup {NewBranch},
                !.attached = (@ \ {terminator}) \cup {NewBranch}]
    /\ UNCHANGED <<fixture, pc, scanned, pending, pattern_context, output, original>>

\* A rewrite that looks for the clauses of old_basic_block whatever
\* reverse_match says.
replace_phi_clause_matching(incoming, old_basic_block, new_basic_block, reverse_match) ==
    [i \in 1..Len(incoming) |->
        IF incoming[i].block = old_basic_block
        THEN Clause(incoming[i].value, new_basic_block) ELSE incoming[i]]

\* replace_phi_clause: the clauses of the new phi are those of the old one
\* in order, with new_basic_block as incoming block where
\* reverse_match ^ (block == old_basic_block).
replace_phi_clause(incoming, old_basic_block, new_basic_block, reverse_match) ==
    [i \in 1..Len(incoming) |->
        IF reverse_match # (incoming[i].block = old_basic_block)
        THEN Clause(incoming[i].value, new_basic_block) ELSE incoming[i]]

\* replace_phi_clauses(block, block, execution block, true): a new phi takes
\* the clauses and every use of the old one, which is removed from the block.
ReplacePhiClauses ==
    /\ patcher.pc = "retargeted"
    /\ LET phi == InBlock(1)
           increment == InBlock(Len(scanned))
       IN  module' =
            [module EXCEPT
                !.phi_incoming = replace_phi_clause(@, BlockName, ExecutionBlock, TRUE),
                !.uses = [v \in DOMAIN @ \cup {NewPhi} |->
                            IF v = NewPhi THEN @[phi]
                            ELSE IF v = phi THEN {}
                            ELSE IF v = increment THEN @[v] \cup {NewPhi}
                            ELSE @[v]],
                !.attached = (@ \ {phi}) \cup {NewPhi}]
    /\ patcher' = [patcher EXCEPT !.pc = "removing",
                                  !.instructions = pattern_context.instructions_to_remove]
    /\ UNCHANGED <<fixture, pc, scanned, pending, pattern_context, output, original>>

\* A slip: an instruction is taken to have no use.
get_first_use_is_none(uses, instruction) == FALSE

\* instr.get_first_use().is_some(): the use list is not empty.  An
\* instruction removed from its block keeps its operands, so it stays in
\* the use lists of the values it has as operands.
get_first_use_is_some(uses, instruction) == uses[InBlock(instruction)] # {}

\* A round that goes on when it removed nothing: every instruction of the
\* list without a use is removed from its block; the function returns when
\* the list is empty and panics when a round removed nothing.
RemoveRoundWithoutFailure ==
    /\ patcher.pc = "removing"
    /\ LET retained == SelectSeq(patcher.instructions,
                                 LAMBDA instr : get_first_use_is_some(module.uses, instr))
           instructions_removed_in_round == Len(retained) < Len(patcher.instructions)
       IN  /\ module' = [module EXCEPT
                !.attached = @ \ {InBlock(instr) : instr \in
                                    {patcher.instructions[i] : i \in 1..Len(patcher.instructions)}
                                    \ {retained[i] : i \in 1..Len(retained)}}]
           /\ patcher' = [patcher EXCEPT
                !.instructions = retained,
                !.pc = IF retained = <<>> THEN "done"
                       ELSE "removing"]
    /\ UNCHANGED <<fixture, pc, scanned, pending, pattern_context, output, original>>

\* One round of remove_instructions_in_safe_order: every instruction of the
\* list without a use is removed from its block; the function returns when
\* the list is empty and panics when a round removed nothing.
RemoveRound ==
    /\ patcher.pc = "removing"
    /\ LET retained == SelectSeq(patcher.instructions,
                                 LAMBDA instr : get_first_use_is_some(module.uses, instr))
           instructions_removed_in_round == Len(retained) < Len(patcher.instructions)
       IN  /\ module' = [module EXCEPT
                !.attached = @ \ {InBlock(instr) : instr \in
                                    {patcher.instructions[i] : i \in 1..Len(patcher.instructions)}
                                    \ {retained[i] : i \in 1..Len(retained)}}]
           /\ patcher' = [patcher EXCEPT
                !.instructions = retained,
                !.pc = IF retained = <<>> THEN "done"
                       ELSE IF instructions_removed_in_round THEN "removing"
                       ELSE "panic"]
    /\ UNCHANGED <<fixture, pc, scanned, pending, pattern_context, output, original>>

\* The instructions of the populate_executable_array function.
PopulateExecutableArray(quil_programs) ==
    <<ExecutionCall("create_executable_cache", ConstI32(Len(quil_programs)), NoFloat),
      ExecutionCall("store", 0, NoFloat)>>
    \o [i \in 1..Len(quil_programs) |->
            ExecutionCall("add_executable_cache_item", ConstI32(i - 1), NoFloat)]
    \o <<ExecutionCall("ret", 0, NoFloat)>>

\* A driver that builds the function and its call only when executables are
\* cached.
PopulateExecutableCacheIfSelected ==
    /\ pc = "patch"
    /\ patcher.pc \in {"done", "not_inserted"}
    /\ pc' = "patched"
    /\ module' =
        IF module.options.cache_executables
        THEN [module EXCEPT
                !.populate_executable_array = PopulateExecutableArray(module.quil_programs),
                !.entry_calls = <<"populate_executable_array">> \o @]
        ELSE module
    /\ UNCHANGED <<fixture, scanned, pending, pattern_context, output, original, patcher>>

\* transpile_module after the last block: populate_executable_array is built
\* and a call to it put before the first instruction of the first block of
\* the entry point.
PopulateExecutableCache ==
    /\ pc = "patch"
    /\ patcher.pc \in {"done", "not_inserted"}
    /\ pc' = "patched"
    /\ module' = [module EXCEPT
            !.populate_executable_array = PopulateExecutableArray(module.quil_programs),
            !.entry_calls = <<"populate_executable_array">> \o @]
    /\ UNCHANGED <<fixture, scanned, pending, pattern_context, output, original, patcher>>

NextPatch ==
    \/ PopulateExecutableCache
    \/ NotInserted
    \/ InsertExecutionBlock
    \/ ReplaceReadout
    \/ InsertCleanupBlock
    \/ ReplaceConditionalBranchTarget
    \/ ReplacePhiClauses
    \/ RemoveRound

SpecPatch == InitPatch /\ [][NextPatch]_vars

(***************************************************************************)
(* What the block held, read off the scanned instructions.                 *)
(***************************************************************************)

Range(seq) == {seq[i] : i \in 1..Len(seq)}

\* The scanned instructions that were handled without an error.
Handled == IF pc = "error" THEN SubSeq(scanned, 1, Len(scanned) - 1) ELSE scanned

\* The instructions the matcher was in a position to consume: all of them in
\* a unitary block, those after the first phi in a shot-count block.
Body ==
    IF fixture.format = "unitary" THEN Handled
    ELSE IF \E i \in 1..Len(Handled) : Handled[i].opcode = "Phi"
    THEN LET phi == CHOOSE i \in 1..Len(Handled) :
                        /\ Handled[i].opcode = "Phi"
                        /\ \A j \in 1..(i - 1) : Handled[j].opcode # "Phi"
         IN  SubSeq(Handled, phi + 1, Len(Handled))
    ELSE <<>>

\* The eight forms [__ctl][__adj][__body] of the end of a QIS name.
SuffixForms ==
    {<<>>, <<"ctl">>, <<"adj">>, <<"body">>, <<"ctl", "adj">>, <<"ctl", "body">>,
     <<"adj", "body">>, <<"ctl", "adj", "body">>}

IsQisCall(instruction, ops) ==
    /\ instruction.opcode = "Call"
    /\ instruction.callee.family = "qis"
    /\ instruction.callee.stem \in ops
    /\ instruction.callee.suffix \in SuffixForms

IsMz(instruction) == IsQisCall(instruction, {"mz"})

IsResultRecord(instruction) ==
    /\ instruction.opcode = "Call"
    /\ instruction.callee = [family |-> "rt", stem |-> "result", suffix |-> <<"record_output">>]

\* The Result index an mz or a result record_output names.
ResultOf(instruction) ==
    IF IsMz(instruction) THEN instruction.args[2].val ELSE instruction.args[1].val

RECURSIVE FirstSeenResults(_)
\* The distinct Result indices of the mz and result record_output calls, in
\* the order of their first appearance.
FirstSeenResults(instructions) ==
    IF instructions = <<>> THEN <<>>
    ELSE LET before == FirstSeenResults(SubSeq(instructions, 1, Len(instructions) - 1))
             last == instructions[Len(instructions)]
         IN  IF (IsMz(last) \/ IsResultRecord(last)) /\ ResultOf(last) \notin Range(before)
             THEN Append(before, ResultOf(last))
             ELSE before

MeasuredResults == {ResultOf(Body[i]) : i \in {j \in 1..Len(Body) : IsMz(Body[j])}}

RoLength(program) ==
    IF "ro" \in DOMAIN program.memory_regions
    THEN program.memory_regions["ro"].length
    ELSE -1

(***************************************************************************)
(* Result index densification.                                             *)
(***************************************************************************)

ReadResultMappingIsDense ==
    LET seen == FirstSeenResults(Body)
        mapping == pattern_context.read_result_mapping
    IN  /\ DOMAIN mapping = Range(seen)
        /\ \A k \in 1..Len(seen) : mapping[seen[k]] = k - 1

ReadResultMappingIsKept ==
    \A r \in DOMAIN pattern_context.read_result_mapping :
        /\ r \in DOMAIN pattern_context.read_result_mapping'
        /\ pattern_context.read_result_mapping'[r] = pattern_context.read_result_mapping[r]

\* C1: after any sequence of mz and result record_output calls the map from
\* Result indices to ro indices holds exactly the Result indices seen, the
\* k-th of them in order of first appearance at ro index k-1 (so it is
\* injective onto 0..N-1), and no step changes the ro index of a Result index.
C1_DenseFirstSeenMapping ==
    [](ReadResultMappingIsDense) /\ [][ReadResultMappingIsKept]_vars

\* Result indices 3, 7, 1 measured in that order: 3 -> 0, 7 -> 1, 1 -> 2.
C1_Witness ==
    /\ DOMAIN pattern_context.read_result_mapping = {1, 3, 7}
    /\ pattern_context.read_result_mapping[3] = 0
    /\ pattern_context.read_result_mapping[7] = 1
    /\ pattern_context.read_result_mapping[1] = 2

\* C2 as stated: the length of DECLARE ro equals the number of distinct
\* Result indices that were the target of an mz.
C2_RoLengthCountsMeasuredOnly ==
    pc = "built" => RoLength(output.program) = Cardinality(MeasuredResults)

\* C2, amended: the length of DECLARE ro BIT[n] equals the number of distinct
\* Result indices that were the target of an mz or the argument of a result
\* record_output call in the matched block.
C2_RoLengthCountsSeenResults ==
    pc = "built" =>
        /\ "ro" \in DOMAIN output.program.memory_regions
        /\ output.program.memory_regions["ro"].data_type = "Bit"
        /\ RoLength(output.program) = Len(FirstSeenResults(Body))

\* A built program whose block records a Result index that no mz targeted.
C2_Witness ==
    /\ pc = "built"
    /\ RoLength(output.program) = 2
    /\ Cardinality(MeasuredResults) = 1

(***************************************************************************)
(* Gate parameters.                                                        *)
(***************************************************************************)

\* The ops of the dispatch table, with their Quil name and arity.
GateOps == {"h", "x", "y", "z", "s", "t", "rx", "ry", "rz", "cnot", "cz", "swap", "toffoli"}

RotationOps == {"rx", "ry", "rz"}

\* The calls of the block that put an instruction into the program.
Emitting == SelectSeq(Body, LAMBDA i : IsQisCall(i, GateOps \cup {"mz"}))

IsRotation(instruction) == IsQisCall(instruction, RotationOps)

RECURSIVE FirstSeenParameters(_)
\* The distinct non-constant float operands of the rotations, in the order
\* of their first appearance.
FirstSeenParameters(instructions) ==
    IF instructions = <<>> THEN <<>>
    ELSE LET before == FirstSeenParameters(SubSeq(instructions, 1, Len(instructions) - 1))
             last == instructions[Len(instructions)]
         IN  IF /\ IsRotation(last)
                /\ ~last.args[1].is_const
                /\ last.args[1] \notin Range(before)
             THEN Append(before, last.args[1])
             ELSE before

\* The slot of a value: its place in the first-seen order, counted from 0.
SlotOf(value) ==
    (CHOOSE i \in 1..Len(FirstSeenParameters(Body)) : FirstSeenParameters(Body)[i] = value) - 1

Accumulated == pattern_context.quil_program.instructions

ParametersAreFirstSeen ==
    pc # "error" =>
        /\ pattern_context.parameters = FirstSeenParameters(Body)
        /\ Len(Accumulated) = Len(Emitting)
        /\ \A k \in 1..Len(Emitting) :
            IsRotation(Emitting[k]) /\ ~Emitting[k].args[1].is_const =>
                Accumulated[k].parameters =
                    <<[tag |-> "Address", name |-> "__qir_param",
                       n |-> SlotOf(Emitting[k].args[1])]>>

ParameterSlotsAreKept ==
    /\ Len(pattern_context.parameters') >= Len(pattern_context.parameters)
    /\ \A i \in 1..Len(pattern_context.parameters) :
            pattern_context.parameters'[i] = pattern_context.parameters[i]

\* C3: the parameter list holds each non-constant float operand of the gates
\* scanned once, in order of first appearance; every gate using a value
\* refers to __qir_param at the position of that value; no step moves a value.
C3_ParameterSlotsStable ==
    [](ParametersAreFirstSeen) /\ [][ParameterSlotsAreKept]_vars

\* Two values, the first of them used by two gates with another gate between.
C3_Witness ==
    /\ pc = "scan"
    /\ Len(pattern_context.parameters) = 2
    /\ Len(Accumulated) = 3
    /\ Accumulated[1].parameters = Accumulated[3].parameters
    /\ Accumulated[1].parameters # Accumulated[2].parameters
    /\ Accumulated[2].parameters[1].tag = "Address"

DeclaresParameters(program) == "__qir_param" \in DOMAIN program.memory_regions

\* C4: a constant float operand becomes a numeric literal and is not in the
\* parameter list; the emitted program declares __qir_param REAL[m] exactly
\* when m > 0, m being the number of distinct non-constant operands.
C4_ConstantsInlinedAndDeclaredLength ==
    /\ pc # "error" =>
        /\ \A i \in 1..Len(pattern_context.parameters) : ~pattern_context.parameters[i].is_const
        /\ Len(Accumulated) = Len(Emitting)
        /\ \A k \in 1..Len(Emitting) :
            IsRotation(Emitting[k]) /\ Emitting[k].args[1].is_const =>
                Accumulated[k].parameters =
                    <<[tag |-> "Number", name |-> "", n |-> Emitting[k].args[1].val]>>
    /\ pc = "built" =>
        LET m == Len(FirstSeenParameters(Body))
        IN  /\ DeclaresParameters(output.program) <=> m > 0
            /\ m > 0 =>
                output.program.memory_regions["__qir_param"] =
                    [data_type |-> "Real", length |-> m]

\* A built program whose only parameters are constants: no declaration.
C4_Witness ==
    /\ pc = "built"
    /\ \E k \in 1..Len(output.program.instructions) :
        /\ output.program.instructions[k].kind = "Gate"
        /\ Len(output.program.instructions[k].parameters) = 1
        /\ output.program.instructions[k].parameters[1].tag = "Number"
    /\ ~DeclaresParameters(output.program)

(***************************************************************************)
(* The loop end.                                                           *)
(***************************************************************************)

LastScanned == scanned[Len(scanned)]

HasShotEnd ==
    \E i \in 1..Len(pattern_context.recorded_output) :
        pattern_context.recorded_output[i].tag = "ShotEnd"

\* C5: a shot count in the context is the constant on the right of the icmp
\* that follows the add at the loop end; the loop end is matched, and a shot
\* count set, only on an add whose operand 1 is the constant 1; the emitted
\* shot count is the one of the context.
C5_ShotCountFromIcmpOfIncrementBy1 ==
    /\ HasShotEnd \/ pattern_context.shot_count.some =>
        /\ scanned # <<>>
        /\ LastScanned.opcode = "Add"
        /\ LastScanned.ints[2] = [vk |-> "const", n |-> 1]
    /\ pattern_context.shot_count.some =>
        /\ Len(LastScanned.tail) >= 1
        /\ LastScanned.tail[1].opcode = "ICmp"
        /\ LastScanned.tail[1].ints[2] = [vk |-> "const", n |-> pattern_context.shot_count.v]
    /\ pc = "built" /\ fixture.format = "shot_count" =>
        output.shot_count = pattern_context.shot_count
    /\ \A i \in 1..Len(Handled) :
        Handled[i].opcode = "Add" /\ Handled[i].ints[2] # [vk |-> "const", n |-> 1] =>
            i < Len(scanned) \/ (~pattern_context.shot_count.some /\ ~HasShotEnd)

\* A program built with 1000 shots, after an add by 2 was passed over.
C5_Witness ==
    /\ pc = "built"
    /\ output.shot_count = [some |-> TRUE, v |-> 1000]
    /\ \E i \in 1..(Len(scanned) - 1) :
        /\ scanned[i].opcode = "Add"
        /\ scanned[i].ints[2] = [vk |-> "const", n |-> 2]

(***************************************************************************)
(* The gates.                                                              *)
(***************************************************************************)

\* The dispatch table as the specification prints it.
TableName(op) ==
    CASE op = "h" -> "H" [] op = "x" -> "X" [] op = "y" -> "Y" [] op = "z" -> "Z"
      [] op = "s" -> "S" [] op = "t" -> "T" [] op = "rx" -> "RX" [] op = "ry" -> "RY"
      [] op = "rz" -> "RZ" [] op = "cnot" -> "CNOT" [] op = "cz" -> "CZ"
      [] op = "swap" -> "SWAP" [] op = "toffoli" -> "CCNOT"

TableParameters(op) == IF op \in RotationOps THEN 1 ELSE 0

TableQubits(op) ==
    IF op = "toffoli" THEN 3 ELSE IF op \in {"cnot", "cz", "swap"} THEN 2 ELSE 1

\* The expression a float operand stands for.
ExpressionOf(value) ==
    IF value.is_const
    THEN [tag |-> "Number", name |-> "", n |-> value.val]
    ELSE [tag |-> "Address", name |-> "__qir_param", n |-> SlotOf(value)]

\* The dense index of a Result: its place in the first-seen order, from 0.
DenseIndexOf(result) ==
    (CHOOSE i \in 1..Len(FirstSeenResults(Body)) : FirstSeenResults(Body)[i] = result) - 1

\* The k-th instruction of the program is the translation of the call.
Translates(call, quil) ==
    IF IsMz(call)
    THEN quil = [kind |-> "Measurement", qubit |-> call.args[1].val,
                 target |-> [tag |-> "Address", name |-> "ro",
                             n |-> DenseIndexOf(call.args[2].val)]]
    ELSE LET op == call.callee.stem
             p == TableParameters(op)
             q == TableQubits(op)
         IN  /\ quil.kind = "Gate"
             /\ quil.name = TableName(op)
             /\ Len(call.args) >= p + q
             /\ quil.parameters = [i \in 1..p |-> ExpressionOf(call.args[i])]
             /\ quil.qubits = [i \in 1..q |-> call.args[p + i].val]

\* C6: the accumulated program holds one instruction per gate or mz call
\* scanned, in the order of the calls: the gate of the table with the first p
\* operands as parameters and the next q as qubits, MEASURE q ro[k] for mz.
C6_OneGatePerCallInOrder ==
    pc # "error" =>
        /\ Len(Accumulated) = Len(Emitting)
        /\ \A k \in 1..Len(Emitting) : Translates(Emitting[k], Accumulated[k])

\* CCNOT 2 0 1 after another gate.
C6_Witness ==
    /\ Len(Accumulated) >= 2
    /\ Accumulated[2].kind = "Gate"
    /\ Accumulated[2].name = "CCNOT"
    /\ Accumulated[2].qubits = <<2, 0, 1>>
    /\ Accumulated[1] # Accumulated[2]

HasSuffix(call, group) == group \in Range(call.callee.suffix)

\* C7: a gate has DAGGER exactly when the name has __adj and CONTROLLED
\* exactly when it has __ctl, and nothing else; two calls that differ in
\* __body alone give the same gate.
C7_ModifiersFollowSuffixes ==
    pc # "error" =>
        /\ Len(Accumulated) = Len(Emitting)
        /\ \A k \in 1..Len(Emitting) :
            ~IsMz(Emitting[k]) =>
                /\ "DAGGER" \in Range(Accumulated[k].modifiers) <=> HasSuffix(Emitting[k], "adj")
                /\ "CONTROLLED" \in Range(Accumulated[k].modifiers) <=> HasSuffix(Emitting[k], "ctl")
                /\ Range(Accumulated[k].modifiers) \subseteq {"DAGGER", "CONTROLLED"}
                /\ Len(Accumulated[k].modifiers) = Cardinality(Range(Accumulated[k].modifiers))
        /\ \A j, k \in 1..Len(Emitting) :
            /\ ~IsMz(Emitting[j]) /\ ~IsMz(Emitting[k])
            /\ Emitting[j].callee.stem = Emitting[k].callee.stem
            /\ Emitting[j].args = Emitting[k].args
            /\ HasSuffix(Emitting[j], "adj") <=> HasSuffix(Emitting[k], "adj")
            /\ HasSuffix(Emitting[j], "ctl") <=> HasSuffix(Emitting[k], "ctl")
            => Accumulated[j] = Accumulated[k]

\* t__ctl__adj and t__ctl__adj__body both scanned, after t__body.
C7_Witness ==
    /\ Len(Emitting) = 3
    /\ Emitting[1].callee.suffix = <<"body">>
    /\ Emitting[2].callee.suffix = <<"ctl", "adj">>
    /\ Emitting[3].callee.suffix = <<"ctl", "adj", "body">>
    /\ Accumulated[1].modifiers = <<>>
    /\ Accumulated[2].modifiers = <<"DAGGER", "CONTROLLED">>
    /\ Accumulated[3] = Accumulated[2]

(***************************************************************************)
(* The prologue.                                                           *)
(***************************************************************************)

IsReset(instruction) == IsQisCall(instruction, {"reset"})

ResetsScanned == Cardinality({i \in 1..Len(Body) : IsReset(Body[i])})

RECURSIVE ReachableFrom(_, _)
\* The blocks control can get to from the given blocks.
ReachableFrom(cfg, blocks) ==
    LET next == blocks \cup UNION {Targets(cfg[b]) : b \in blocks \cap DOMAIN cfg}
    IN  IF next = blocks THEN blocks ELSE ReachableFrom(cfg, next)

IsReachable(cfg, block) == block \in ReachableFrom(cfg, {"entry"})

\* The else target of the terminator of the block before the rewrite.
OriginalElseTarget == original.cfg[BlockName].else_block

\* C9: after the rewrite the cleanup block ends with a branch to the block
\* that was the else target of the terminator before the rewrite, the
\* cleanup block is the else target of the terminator, and the former else
\* target can be reached exactly when it could be reached before.
C9_ExitEdgeThroughCleanup ==
    patcher.pc = "done" =>
        /\ module.cfg[CleanupBlock] =
            [op |-> "br", then_block |-> OriginalElseTarget, else_block |-> ""]
        /\ module.cfg[BlockName].else_block = CleanupBlock
        /\ IsReachable(module.cfg, OriginalElseTarget)
            <=> IsReachable(original.cfg, OriginalElseTarget)

\* The same, for the blocks whose else target is another block.
C9_HoldsWhenElseTargetIsAnotherBlock ==
    OriginalElseTarget # BlockName => C9_ExitEdgeThroughCleanup

\* The instructions the rewrite deletes.
Deleted == {[origin |-> "block", n |-> p] : p \in Range(pattern_context.instructions_to_remove)}

IsReadout(instruction) ==
    \E i \in 1..Len(pattern_context.readout_instruction_mapping) :
        pattern_context.readout_instruction_mapping[i][2] = instruction.n

\* C10: when the rewrite has returned, no instruction left in the module has
\* a deleted instruction as an operand; each deleted instruction had no use,
\* or is a read_result call whose uses went to a get_readout_bit call.
C10_NoUseOfDeletedInstruction ==
    patcher.pc = "done" =>
        \A v \in Deleted :
            /\ v \notin module.attached
            /\ module.uses[v] \cap module.attached = {}
            /\ \/ original.uses[v] = {}
               \/ /\ IsReadout(v)
                  /\ \E k \in 1..Len(module.readout_calls) :
                        /\ module.readout_calls[k][1] \in module.attached
                        /\ original.uses[v] \subseteq module.uses[module.readout_calls[k][1]]

\* A rewrite that returned after it deleted a gate, a measurement and a
\* read_result call that had a use.
C10_Witness ==
    /\ patcher.pc = "done"
    /\ Cardinality(Deleted) >= 3
    /\ \E v \in Deleted : original.uses[v] # {}

(***************************************************************************)
(* Unitary blocks.                                                         *)
(***************************************************************************)

\* The calls a unitary block may hold: a QIS gate, measure, reset or
\* read_result call, or a record_output call of a known kind.
IsRecognized(instruction) ==
    \/ IsQisCall(instruction, GateOps \cup {"mz", "reset"})
    \/ /\ instruction.opcode = "Call"
       /\ instruction.callee = [family |-> "qis", stem |-> "read_result", suffix |-> <<"body">>]
    \/ /\ instruction.opcode = "Call"
       /\ instruction.callee.family = "rt"
       /\ instruction.callee.suffix = <<"record_output">>
       /\ instruction.callee.stem \in
            {"result", "tuple_start", "tuple_end", "array_start", "array_end"}

\* C11: a unitary scan that meets an instruction that is no recognized call
\* and no ret ends there with an error; it never goes past it.
C11_UnitaryRejectsOtherInstructions ==
    fixture.format = "unitary" =>
        \A i \in 1..Len(scanned) :
            ~IsRecognized(scanned[i]) /\ scanned[i].opcode # "Return" =>
                /\ i = Len(scanned)
                /\ pc = "error"
                /\ ~output.ok

\* A classical instruction after two recognized calls ended the scan.
C11_Witness ==
    /\ fixture.format = "unitary"
    /\ pc = "error"
    /\ Len(scanned) = 3
    /\ IsRecognized(scanned[1]) /\ IsRecognized(scanned[2])
    /\ scanned[3].opcode = "Other"

(***************************************************************************)
(* Construction of the compiler context (SpecContext).  The variables are  *)
(* read as follows: module is the loaded module (its named struct types,   *)
(* its function declarations, whether an entry point with a first block    *)
(* exists, whether the runtime declarations were added), output the result *)
(* of new_from_data, scanned the instructions a matcher has looked at.     *)
(***************************************************************************)

\* Largest number of function declarations of a loaded module.
MaxFunctions == 2

\* Parameter types of a declaration: LLVM float types, integer types and
\* pointers to the named structs or to something else.
ParamTypes == {"double", "float", "i64", "%Qubit*", "%Result*", "i8*"}

\* BasicValueEnum::FloatValue covers every floating point type.
IsFloatValue(type) == type \in {"double", "float"}

IsPointerValue(type) == type \in {"%Qubit*", "%Result*", "i8*"}

\* The struct a pointer type points to ("" for a pointer to anything else).
Pointee(type) ==
    CASE type = "%Qubit*" -> "Qubit"
      [] type = "%Result*" -> "Result"
      [] OTHER -> ""

ParamLists ==
    {<<>>, <<"double">>, <<"%Qubit*">>, <<"%Result*">>, <<"i64">>,
     <<"double", "%Qubit*">>, <<"float", "%Qubit*">>, <<"%Qubit*", "i64">>,
     <<"i8*", "%Result*">>}

DeclaredNames ==
    {FnName("qis", "rx", <<"body">>), FnName("qis", "foo", <<>>),
     FnName("rt", "result", <<"record_output">>)}

\* Modules: up to MaxFunctions declarations with different names; a struct
\* that a parameter points to exists, opaque or with a body.
StructStates == {"absent", "opaque", "defined"}

UsesStruct(functions, struct) ==
    \E f \in functions : \E i \in 1..Len(f.params) : Pointee(f.params[i]) = struct

\* The sets of declarations of a module: at most MaxFunctions names, each
\* with one list of parameters.
FunctionSets ==
    UNION {{{[name |-> n, params |-> params[n]] : n \in names} :
                params \in [names -> ParamLists]} :
           names \in {ns \in SUBSET DeclaredNames : Cardinality(ns) <= MaxFunctions}}

\* A function with a body: its name, its function attributes and the number
\* of its basic blocks (0 for a declaration).
Defined(name, attributes, blocks) ==
    [name |-> name, attributes |-> attributes, blocks |-> blocks]

DefaultEntrypointName == "QuantumApplication__Run__body"

\* The functions of a module, in the order of the module, that can be its
\* entry point.
EntryCandidates ==
    LET run == Defined(DefaultEntrypointName, {}, 1)
        some_function == Defined("some_function", {"EntryPoint"}, 1)
        other_function == Defined("other_function", {"EntryPoint", "InteropFriendly"}, 1)
        helper == Defined("helper", {"InteropFriendly"}, 1)
    IN  {<<>>, <<helper>>, <<run>>, <<some_function>>, <<helper, run>>,
         <<run, some_function>>, <<some_function, run>>,
         <<some_function, other_function>>, <<other_function, some_function, run>>,
         <<Defined(DefaultEntrypointName, {}, 0)>>,
         <<Defined("some_function", {"EntryPoint"}, 0), run>>}

\* A lookup that takes the default name first.
get_entry_function_by_name_first(definitions) ==
    LET named == {i \in 1..Len(definitions) : definitions[i].name = DefaultEntrypointName}
        attributed == {i \in 1..Len(definitions) :
                            "EntryPoint" \in definitions[i].attributes}
        First(indices) == CHOOSE i \in indices : \A j \in indices : i <= j
    IN  IF named # {} THEN First(named)
        ELSE IF attributed # {} THEN First(attributed)
        ELSE 0

\* get_entry_function: the index of the first function with the EntryPoint
\* attribute, else of the function of the default name, else 0.
get_entry_function(definitions) ==
    LET named == {i \in 1..Len(definitions) : definitions[i].name = DefaultEntrypointName}
        attributed == {i \in 1..Len(definitions) :
                            /\ definitions[i].attributes # {}
                            /\ "EntryPoint" \in definitions[i].attributes}
        First(indices) == CHOOSE i \in indices : \A j \in indices : i <= j
    IN  IF attributed # {} THEN First(attributed)
        ELSE IF named # {} THEN First(named)
        ELSE 0

\* Values::new finds the entry point and its first basic block.
has_entry_block(definitions) ==
    /\ get_entry_function(definitions) # 0
    /\ definitions[get_entry_function(definitions)].blocks > 0

Modules ==
    {[structs |-> structs, functions |-> functions, definitions |-> definitions,
      entry |-> has_entry_block(definitions), builder_at |-> "",
      runtime_declared |-> FALSE] :
        structs \in [{"Qubit", "Result"} -> StructStates],
        functions \in FunctionSets,
        definitions \in EntryCandidates}

InitContext ==
    /\ fixture = Config("reduction", "shot_count", "")
    /\ pc = "load"
    /\ scanned = <<>>
    /\ pending = <<>>
    /\ pattern_context = DefaultContext
    /\ output = [ok |-> FALSE, error |-> "", functions |-> {}]
    /\ original = NoModule
    /\ module \in {m \in Modules :
                      \A struct \in {"Qubit", "Result"} :
                          UsesStruct(m.functions, struct) => m.structs[struct] # "absent"}
    /\ patcher = NoPatcher

\* The pointer types to the structs named Qubit and Result that the module has.
allowed_pointer_params(m) ==
    {type \in ParamTypes :
        /\ Pointee(type) # ""
        /\ m.structs[Pointee(type)] # "absent"}

\* The parameters of the quantum functions that are rejected, with the name
\* of their function.
bad_params(m) ==
    UNION {{<<f.name, i>> : i \in {j \in 1..Len(f.params) :
                LET type == f.params[j] IN
                IF IsFloatValue(type) THEN FALSE
                ELSE IF IsPointerValue(type) THEN type \notin allowed_pointer_params(m)
                ELSE TRUE}} :
           f \in {g \in m.functions : g.name.family = "qis"}}

validate_quantum_fn_params(m) ==
    IF bad_params(m) = {}
    THEN [ok |-> TRUE, error |-> "", functions |-> {}]
    ELSE [ok |-> FALSE, error |-> "Encountered invalid parameter",
          functions |-> {fi[1] : fi \in bad_params(m)}]

\* Values::new finds no entry point with a first block.
EntrypointNotFound ==
    /\ pc = "load"
    /\ ~module.entry
    /\ pc' = "context_error"
    /\ output' = [ok |-> FALSE, error |-> "QIR expected entrypoint not found",
                  functions |-> {}]
    /\ UNCHANGED <<fixture, scanned, pending, pattern_context, original, module, patcher>>

\* Values::new declares the runtime functions, then the validation fails.
ValidationFails ==
    /\ pc = "load"
    /\ module.entry
    /\ ~validate_quantum_fn_params(module).ok
    /\ pc' = "context_error"
    /\ module' = [module EXCEPT
            !.runtime_declared = TRUE,
            !.builder_at = module.definitions[get_entry_function(module.definitions)].name]
    /\ output' = validate_quantum_fn_params(module)
    /\ UNCHANGED <<fixture, scanned, pending, pattern_context, original, patcher>>

\* Values::new declares the runtime functions, then the validation passes.
ContextBuilt ==
    /\ pc = "load"
    /\ module.entry
    /\ validate_quantum_fn_params(module).ok
    /\ pc' = "context"
    /\ module' = [module EXCEPT
            !.runtime_declared = TRUE,
            !.builder_at = module.definitions[get_entry_function(module.definitions)].name]
    /\ output' = validate_quantum_fn_params(module)
    /\ UNCHANGED <<fixture, scanned, pending, pattern_context, original, patcher>>

\* transpile_module starts on the context: the matcher looks at the first
\* instruction of a block.
TranspileModule ==
    /\ pc = "context"
    /\ pc' = "scan"
    /\ \E instruction \in Instructions : scanned' = <<instruction>>
    /\ UNCHANGED <<fixture, pending, pattern_context, output, original, module, patcher>>

NextContext ==
    \/ EntrypointNotFound
    \/ ValidationFails
    \/ ContextBuilt
    \/ TranspileModule

SpecContext == InitContext /\ [][NextContext]_vars

\* The quantum functions with a parameter that is neither double nor a
\* pointer to the opaque struct Qubit or Result.
Offending(m) ==
    {f.name : f \in {g \in m.functions :
        /\ g.name.family = "qis"
        /\ \E i \in 1..Len(g.params) :
              /\ g.params[i] # "double"
              /\ ~(Pointee(g.params[i]) # "" /\ m.structs[Pointee(g.params[i])] = "opaque")}}

\* C12: once the entry point is found, context construction fails exactly
\* when some __quantum__qis__ function has a parameter that is neither double
\* nor a pointer to the opaque struct Qubit or Result; the error names every
\* such function and nothing has been matched when it is returned.
C12_FailsOnEveryOtherParameterType ==
    pc \in {"context", "context_error"} /\ module.entry =>
        /\ output.ok <=> Offending(module) = {}
        /\ ~output.ok => output.functions = Offending(module) /\ scanned = <<>>

\* C12, for modules whose quantum functions take no float and whose Qubit
\* and Result structs have no body: the claim holds.
C12_HoldsWithoutFloatAndDefinedStruct ==
    /\ pc \in {"context", "context_error"}
    /\ module.entry
    /\ \A struct \in {"Qubit", "Result"} : module.structs[struct] # "defined"
    /\ \A f \in module.functions : \A i \in 1..Len(f.params) : f.params[i] # "float"
    => /\ output.ok <=> Offending(module) = {}
       /\ ~output.ok => output.functions = Offending(module) /\ scanned = <<>>

C12_Witness ==
    /\ pc = "context"
    /\ \E f \in module.functions : f.name.family = "qis" /\ f.params = <<"float", "%Qubit*">>

\* The positions of the scanned block the shot-count matcher offers to its
\* instruction matchers: those after the first phi.
Offered ==
    {i \in 1..Len(scanned) : \E j \in 1..(i - 1) : scanned[j].opcode = "Phi"}

IsReadResult(instruction) ==
    instruction.opcode = "Call" /\ instruction.callee = ReadResultBody

\* An mz, or a result record_output, on the Result index of the instruction
\* at position i was offered before it.
MeasuredBefore(i) ==
    \E j \in Offered : j < i /\ IsMz(scanned[j]) /\ ResultOf(scanned[j]) = ResultOf(scanned[i])

RecordedBefore(i) ==
    \E j \in Offered :
        j < i /\ IsResultRecord(scanned[j]) /\ ResultOf(scanned[j]) = ResultOf(scanned[i])

\* The scan stopped with an error on the instruction at position i.
FailedAt(i) == i = Len(scanned) /\ pc = "error"

ReadResultIsRecorded(i) ==
    /\ ResultOf(scanned[i]) \in DOMAIN pattern_context.read_result_mapping
    /\ \E k \in 1..Len(pattern_context.readout_instruction_mapping) :
          pattern_context.readout_instruction_mapping[k] =
              <<pattern_context.read_result_mapping[ResultOf(scanned[i])], i>>
    /\ i \in Range(pattern_context.instructions_to_remove)

\* C13: a read_result call on Result r that the shot-count matcher is offered
\* is accepted only after an mz on r in the same block, and the match fails on
\* it otherwise; an accepted call is appended with the ro index of r to
\* readout_instruction_mapping and is queued for removal.
C13_ReadResultNeedsEarlierMz ==
    fixture.format = "shot_count" =>
        \A i \in Offered :
            IsReadResult(scanned[i]) =>
                IF MeasuredBefore(i) THEN ~FailedAt(i) /\ ReadResultIsRecorded(i)
                ELSE FailedAt(i)

\* C13, for the read_result calls with no result record_output on the same
\* Result before them: the claim holds.
C13_HoldsWithoutEarlierRecordOutput ==
    fixture.format = "shot_count" =>
        \A i \in Offered :
            IsReadResult(scanned[i]) /\ ~RecordedBefore(i) =>
                IF MeasuredBefore(i) THEN ~FailedAt(i) /\ ReadResultIsRecorded(i)
                ELSE FailedAt(i)

C13_Witness ==
    /\ fixture.format = "shot_count"
    /\ \E i \in Offered :
          /\ IsReadResult(scanned[i])
          /\ RecordedBefore(i)
          /\ ~MeasuredBefore(i)
          /\ ~FailedAt(i)
          /\ ReadResultIsRecorded(i)

IsRecordOutput(instruction, kinds) ==
    /\ instruction.opcode = "Call"
    /\ instruction.callee.family = "rt"
    /\ instruction.callee.suffix = <<"record_output">>
    /\ instruction.callee.stem \in kinds

EventKinds == {"result", "tuple_start", "tuple_end", "array_start", "array_end"}

\* The event a record_output call of one of the five kinds stands for.
EventOf(instruction) ==
    CASE instruction.callee.stem = "result" ->
            Event("ResultReadoutOffset",
                  pattern_context.read_result_mapping[ResultOf(instruction)])
      [] instruction.callee.stem = "tuple_start" -> Event("TupleStart", 0)
      [] instruction.callee.stem = "tuple_end" -> Event("TupleEnd", 0)
      [] instruction.callee.stem = "array_start" -> Event("ArrayStart", 0)
      [] instruction.callee.stem = "array_end" -> Event("ArrayEnd", 0)

RECURSIVE EventsOf(_)
EventsOf(instructions) ==
    IF instructions = <<>> THEN <<>>
    ELSE <<EventOf(Head(instructions))>> \o EventsOf(Tail(instructions))

\* The events of recorded_output that are not the shot markers.
RecordedEvents(recorded_output) ==
    SelectSeq(recorded_output, LAMBDA event : event.tag \notin {"ShotStart", "ShotEnd"})

\* C14: the events of recorded_output other than the shot markers are, in
\* order, one event per record_output call of kind result, tuple_start,
\* tuple_end, array_start or array_end handled so far, of the variant of that
\* kind; on a call of kind bool, integer or double the match fails and no
\* output is returned.
C14_OneEventPerRecordCallInOrder ==
    /\ RecordedEvents(pattern_context.recorded_output) =
            EventsOf(SelectSeq(Body, LAMBDA i : IsRecordOutput(i, EventKinds)))
    /\ output.ok =>
            RecordedEvents(output.recorded_output) =
                EventsOf(SelectSeq(Body, LAMBDA i : IsRecordOutput(i, EventKinds)))
    /\ \A i \in 1..Len(scanned) :
            /\ IsRecordOutput(scanned[i], {"bool", "integer", "double"})
            /\ (fixture.format = "shot_count" => i \in Offered)
            => FailedAt(i) /\ ~output.ok

C14_Witness ==
    /\ pc = "built"
    /\ output.ok
    /\ RecordedEvents(output.recorded_output) =
            <<Event("TupleStart", 0), Event("ResultReadoutOffset", 0), Event("TupleEnd", 0)>>

\* C15: at the end of a shot-count scan the block is a match, and the
\* transpile returns a program, exactly when a shot count was set at the loop
\* end and some scanned call put an instruction into the body of the program;
\* otherwise the transpile returns an error (a counted loop with reset calls
\* only, gates without a recognized loop end).
C15_MatchNeedsShotCountAndBody ==
    fixture.format = "shot_count" /\ pc \in {"built", "not_detected"} =>
        /\ output.ok <=> pattern_context.shot_count.some /\ Emitting # <<>>
        /\ pattern_context.shot_count.some => HasShotEnd
        /\ pc = "built" <=> output.ok

C15_Witness ==
    /\ fixture.format = "shot_count"
    /\ pc = "not_detected"
    /\ ~output.ok
    /\ pattern_context.shot_count.some
    /\ \E i \in 1..Len(Body) : IsReset(Body[i])
    /\ \A i \in 1..Len(Body) : Body[i].opcode = "Call" => IsReset(Body[i])

\* The other case of C15: gates, and no loop end.
C15_GatesWithoutLoopEnd ==
    /\ fixture.format = "shot_count"
    /\ pc = "not_detected"
    /\ Emitting # <<>>
    /\ ~pattern_context.shot_count.some

\* The matcher recognized no pattern in the scanned block: no shot count, or
\* no call that puts an instruction into the program.
NoPatternRecognized ==
    \/ ~pattern_context.shot_count.some
    \/ \A i \in 1..Len(scanned) : ~IsQisCall(scanned[i], GateOps \cup {"mz"})

\* C16: the patcher returns without an error on a block in which no pattern
\* was recognized, and the module is then what it was: no block inserted, no
\* call added, no instruction deleted, terminators and phis as before (the
\* driver, once past the last block, adds its call to the entry block).
C16_UnmatchedBlockLeftUnchanged ==
    NoPatternRecognized =>
        /\ [module EXCEPT !.populate_executable_array = <<>>, !.entry_calls = <<>>] = original
        /\ pc = "patch" => module = original
        /\ patcher.pc \in {"start", "not_inserted"}
        /\ patcher.pc = "not_inserted" =>
                patcher = [NoPatcher EXCEPT !.pc = "not_inserted"]

C16_Witness ==
    /\ patcher.pc = "not_inserted"
    /\ pattern_context.shot_count.some
    /\ \E i \in 1..Len(scanned) : scanned[i].opcode = "Other"
    /\ module = original

\* The position of the loop-start phi of the scanned block.
PhiPosition ==
    CHOOSE i \in 1..Len(scanned) :
        /\ scanned[i].opcode = "Phi"
        /\ \A j \in 1..(i - 1) : scanned[j].opcode # "Phi"

\* The instruction at position i is an add by 1 followed by an icmp of the
\* loop-start phi with an integer constant: the icmp matched at the loop end.
IcmpMatchedAt(i) ==
    /\ i \in Offered
    /\ scanned[i].opcode = "Add"
    /\ scanned[i].ints[2] = IntConst(1)
    /\ scanned[i].tail # <<>>
    /\ scanned[i].tail[1].opcode = "ICmp"
    /\ scanned[i].tail[1].ints[1] = InstValue(PhiPosition)
    /\ scanned[i].tail[1].ints[2].vk = "const"

BranchesOnIcmp(i) ==
    /\ Len(scanned[i].tail) >= 2
    /\ scanned[i].tail[2].opcode = "Br"
    /\ scanned[i].tail[2].first_use

\* C17: when the constant on the right of the icmp matched at the loop end is
\* negative the match fails, with no shot count, no ShotEnd and no output;
\* a constant that is not negative, before a branch on the icmp, is the shot
\* count.
C17_NegativeShotCountFails ==
    fixture.format = "shot_count" =>
        \A i \in 1..Len(scanned) :
            IcmpMatchedAt(i) =>
                LET n == scanned[i].tail[1].ints[2].n IN
                /\ n < 0 =>
                        /\ FailedAt(i)
                        /\ ~pattern_context.shot_count.some
                        /\ ~HasShotEnd
                        /\ ~output.ok
                /\ n >= 0 /\ BranchesOnIcmp(i) =>
                        /\ ~FailedAt(i)
                        /\ pattern_context.shot_count = Some(n)

C17_Witness ==
    /\ fixture.format = "shot_count"
    /\ \E i \in 1..Len(scanned) :
          /\ IcmpMatchedAt(i)
          /\ scanned[i].tail[1].ints[2].n = -1
          /\ BranchesOnIcmp(i)
          /\ FailedAt(i)

\* The other case of C17: the constant 0 is taken as the shot count.
C17_ZeroAccepted ==
    /\ fixture.format = "shot_count"
    /\ pattern_context.shot_count = Some(0)
    /\ HasShotEnd

\* C18: a transpile, in either format and whether it returns a program or an
\* error, leaves the module as it was loaded: no execution or cleanup block,
\* no runtime call, no branch or phi rewritten, no instruction detached; the
\* instructions of instructions_to_remove are never given to the remover.
C18_TranspileOnlyReads ==
    /\ module = NoModule
    /\ original = NoModule
    /\ patcher = NoPatcher

C18_Witness ==
    /\ pc = "built"
    /\ output.ok
    /\ Len(pattern_context.instructions_to_remove) >= 2
    /\ patcher.instructions = <<>>
    /\ module.execution = <<>>

\* The other case of C18: a transpile that failed with instructions queued.
C18_FailedWithQueue ==
    /\ pc = "error"
    /\ pattern_context.instructions_to_remove # <<>>
    /\ module = NoModule

\* C19, as stated: once the driver has returned, populate_executable_array
\* exists and is called exactly when executable caching was selected; when
\* it is, the one call to it is the first instruction of the first block of
\* the entry point.
C19_PopulateOnlyWhenCaching ==
    /\ pc = "patch" => module.populate_executable_array = <<>> /\ module.entry_calls = <<>>
    /\ pc = "patched" =>
        /\ module.populate_executable_array # <<>> <=> module.options.cache_executables
        /\ module.entry_calls # <<>> <=> module.options.cache_executables
        /\ module.options.cache_executables =>
                module.entry_calls = <<"populate_executable_array">>

\* C19, amended: once the driver has returned, populate_executable_array
\* exists whether or not executable caching was selected, it creates a cache
\* of as many items as programs were cached (none without caching) and adds
\* each of them, and the one call to it is the first instruction of the first
\* block of the entry point; the calls that read the cache are in the
\* execution block.
C19_PopulateAlways ==
    /\ pc = "patch" => module.populate_executable_array = <<>> /\ module.entry_calls = <<>>
    /\ pc = "patched" =>
        /\ module.populate_executable_array =
                PopulateExecutableArray(module.quil_programs)
        /\ module.entry_calls = <<"populate_executable_array">>
        /\ module.options.cache_executables =>
                Len(module.quil_programs) = (IF module.execution = <<>> THEN 0 ELSE 1)
        /\ ~module.options.cache_executables => module.quil_programs = <<>>
        /\ \A i \in 1..Len(module.execution) :
                module.execution[i].callee = "get_executable" =>
                    module.options.cache_executables

C19_Witness ==
    /\ pc = "patched"
    /\ ~module.options.cache_executables
    /\ module.execution # <<>>
    /\ module.entry_calls = <<"populate_executable_array">>
    /\ Len(module.populate_executable_array) = 3

(***************************************************************************)
(* The unitary transpile of a function (SpecUnitary).  module is the entry *)
(* function: the number of its parameters, whether it is variadic, its     *)
(* return type and its basic blocks; pending holds the instructions of the *)
(* first block that are still to be scanned.                               *)
(***************************************************************************)

\* Largest number of basic blocks of the entry function.
MaxBlocks == 2

\* The first block of the function: with a ret, with another terminator,
\* with a classical instruction, and without a terminator.
UnitaryBlocks ==
    LET h == Call(Qis("h", <<"body">>), <<QubitPtr(0)>>)
        mz == Call(Qis("mz", <<"body">>), <<QubitPtr(0), ResultPtr(0)>>)
        record == Call(RecordOutput("result"), <<ResultPtr(0)>>)
        bool == Call(RecordOutput("bool"), <<>>)
    IN  {<<h, mz, record, Plain("Return")>>,
         <<h, Plain("Return")>>,
         <<Plain("Return")>>,
         <<h, Plain("Unreachable")>>,
         <<h, Plain("Other"), Plain("Return")>>,
         <<h, bool, Plain("Return")>>,
         <<h, mz>>,
         <<>>}

EntryFunctions ==
    {[params |-> params, var_arg |-> var_arg, return_type |-> return_type,
      blocks |-> blocks] :
        params \in 0..1, var_arg \in BOOLEAN, return_type \in {"void", "i64", "i32"},
        blocks \in {<<>>} \cup
                   {<<first>> \o [i \in 1..count |-> <<Plain("Return")>>] :
                        first \in UnitaryBlocks, count \in 0..(MaxBlocks - 1)}}

InitUnitary ==
    /\ fixture = Config("bell_state", "unitary", "")
    /\ pc = "transpile_function"
    /\ scanned = <<>>
    /\ pending = <<>>
    /\ pattern_context = DefaultContext
    /\ output = NoOutput
    /\ original = NoModule
    /\ module \in EntryFunctions
    /\ patcher = NoPatcher

\* The test of transpile_function on the type of the function.
nullary_returning_i64_or_void(function) ==
    /\ function.params = 0
    /\ ~function.var_arg
    /\ function.return_type \in {"void", "i64"}

\* The test of transpile_function on the blocks of the function.
has_single_block(function) == Len(function.blocks) = 1

\* transpile_function up to the call of transpile_basic_block.
TranspileFunction ==
    /\ pc = "transpile_function"
    /\ IF nullary_returning_i64_or_void(module) /\ has_single_block(module)
       THEN pc' = "scan" /\ pending' = module.blocks[1]
       ELSE pc' = "error" /\ pending' = pending
    /\ UNCHANGED <<fixture, scanned, pattern_context, output, original, module, patcher>>

\* One turn of the loop of from_basic_block on the next instruction.
UnitaryScan ==
    /\ pc = "scan"
    /\ pending # <<>>
    /\ LET iteration == unitary_iteration(pattern_context, Head(pending), Len(scanned) + 1)
       IN  /\ pattern_context' = iteration.ctx
           /\ scanned' = Append(scanned, Head(pending))
           /\ pending' = Tail(pending)
           /\ pc' = CASE iteration.branch \in {"quantum", "record"} -> "scan"
                      [] iteration.branch = "return" -> "scanned"
                      [] OTHER -> "error"
    /\ UNCHANGED <<fixture, output, original, module, patcher>>

\* The loop of from_basic_block runs out of instructions.
UnitaryEndOfBlock ==
    /\ pc = "scan"
    /\ pending = <<>>
    /\ pc' = "scanned"
    /\ UNCHANGED <<fixture, scanned, pending, pattern_context, output, original, module, patcher>>

UnitaryBuildQuilProgram ==
    /\ pc = "scanned"
    /\ output' = build_quil_program_unitary(pattern_context, fixture.rewiring_pragma)
    /\ pc' = "built"
    /\ UNCHANGED <<fixture, scanned, pending, pattern_context, original, module, patcher>>

NextUnitary ==
    \/ TranspileFunction
    \/ UnitaryScan
    \/ UnitaryEndOfBlock
    \/ UnitaryBuildQuilProgram

SpecUnitary == InitUnitary /\ [][NextUnitary]_vars

\* The first block of the function ends in a return.
EndsInReturn(function) ==
    /\ function.blocks # <<>>
    /\ function.blocks[1] # <<>>
    /\ function.blocks[1][Len(function.blocks[1])].opcode = "Return"

\* The first block of the function ends in a terminator.
EndsInTerminator(function) ==
    /\ function.blocks # <<>>
    /\ function.blocks[1] # <<>>
    /\ function.blocks[1][Len(function.blocks[1])].opcode \in {"Return", "Unreachable"}

\* C20: a unitary transpile returns a program only for an entry function
\* without parameters, not variadic, returning void or i64, of exactly one
\* basic block that ends in a return; for any other function it ends in an
\* error and returns no program.
C20_UnitaryNeedsNullaryFunctionAndReturn ==
    /\ output.ok =>
        /\ module.params = 0
        /\ ~module.var_arg
        /\ module.return_type \in {"void", "i64"}
        /\ Len(module.blocks) = 1
        /\ EndsInReturn(module)
    /\ pc \in {"scanned", "built"} =>
        /\ module.params = 0
        /\ ~module.var_arg
        /\ module.return_type \in {"void", "i64"}
        /\ Len(module.blocks) = 1
        /\ EndsInReturn(module)

\* C20, for the functions whose first block ends in a terminator: the claim
\* holds.
C20_HoldsForTerminatedBlocks ==
    (module.blocks # <<>> => EndsInTerminator(module)) =>
        C20_UnitaryNeedsNullaryFunctionAndReturn

C20_Witness ==
    /\ pc = "built"
    /\ output.ok
    /\ ~EndsInReturn(module)
    /\ Len(scanned) = 2

HasEntryPointAttribute(m) ==
    \E i \in 1..Len(m.definitions) : "EntryPoint" \in m.definitions[i].attributes

HasDefaultEntrypoint(m) ==
    \E i \in 1..Len(m.definitions) : m.definitions[i].name = DefaultEntrypointName

\* C21: once the context construction is past the lookup of the entry point,
\* the function taken is one that carries the EntryPoint attribute whenever
\* the module has one, the function named QuantumApplication__Run__body only
\* when no function carries the attribute; when the module has neither, the
\* construction fails with the entrypoint-missing error and nothing was
\* scanned.
C21_AttributeBeforeDefaultName ==
    /\ module.builder_at # "" =>
        /\ \E i \in 1..Len(module.definitions) :
                /\ module.definitions[i].name = module.builder_at
                /\ IF HasEntryPointAttribute(module)
                   THEN "EntryPoint" \in module.definitions[i].attributes
                   ELSE module.builder_at = DefaultEntrypointName
    /\ pc # "load" /\ ~HasEntryPointAttribute(module) /\ ~HasDefaultEntrypoint(module) =>
        /\ pc = "context_error"
        /\ output.error = "QIR expected entrypoint not found"
        /\ module.builder_at = ""
        /\ scanned = <<>>

C21_Witness ==
    /\ pc = "context"
    /\ HasEntryPointAttribute(module)
    /\ HasDefaultEntrypoint(module)
    /\ module.definitions[1].name = DefaultEntrypointName
    /\ module.builder_at = "some_function"

\* The other case of C21: neither function exists.
C21_NeitherExists ==
    /\ pc = "context_error"
    /\ module.definitions # <<>>
    /\ ~HasEntryPointAttribute(module)
    /\ ~HasDefaultEntrypoint(module)

(***************************************************************************)
(* The debug formatter (SpecFormat), DebugOutputFormat::try_new.  module   *)
(* is the input: the kind of the execution result, its shots and the       *)
(* schedule (mapping); pending is the cursor <<shot_idx, position in the   *)
(* mapping>>; output.lines is the vector of lines built so far.            *)
(***************************************************************************)

\* Largest number of shots of an execution result.
MaxShots == 2

\* One event of a schedule; tag is the optional label of a result ("": None).
Recorded(variant, index, tag) == [variant |-> variant, index |-> index, tag |-> tag]

\* One formatted line: "[shot:<shot_id> <what>]", what being start, end,
\* tuple_start, ..., or "result <result>" with " (<tag>)" after it.
Line(shot_id, what, result, tag) ==
    [shot_id |-> shot_id, what |-> what, result |-> result, tag |-> tag]

ShotData == {<<>>, <<1>>, <<1, 2>>, <<2, 1, 1>>}

Mappings ==
    LET start == Recorded("ShotStart", 0, "")
        end == Recorded("ShotEnd", 0, "")
        result(i) == Recorded("ResultReadoutOffset", i, "")
        tagged(i) == Recorded("ResultReadoutOffset", i, "tag-from-source")
        bool == Recorded("BoolReadoutOffset", 0, "")
    IN  {<<>>,
         <<start, result(0), tagged(1), end>>,
         <<start, result(0), result(1), tagged(2), end>>,
         <<start, Recorded("TupleStart", 0, ""), result(1), result(0),
           Recorded("TupleEnd", 0, ""), end>>,
         <<start, result(0), end, result(2)>>,
         <<start, end, start, end>>,
         <<Recorded("ArrayStart", 0, ""), result(1), Recorded("ArrayEnd", 0, "")>>,
         <<start, bool, result(2), end>>,
         <<start, result(2), bool, end>>,
         <<start, result(0), end, bool>>}

FormatInputs ==
    {[kind |-> kind, shots |-> shots, mapping |-> mapping] :
        kind \in {"I8", "F64"},
        shots \in UNION {[1..n -> ShotData] : n \in 0..MaxShots},
        mapping \in Mappings}

NoFormatError == [tag |-> "", shot_id |-> 0, index |-> 0]

InitFormat ==
    /\ fixture = Config("record_output", "shot_count", "")
    /\ pc = "try_new"
    /\ scanned = <<>>
    /\ pending = <<0, 1>>
    /\ pattern_context = DefaultContext
    /\ output = [ok |-> FALSE, error |-> NoFormatError, lines |-> <<>>]
    /\ original = NoModule
    /\ module \in FormatInputs
    /\ patcher = NoPatcher

FormatReturns(result) ==
    /\ pc' = "returned"
    /\ output' = result
    /\ UNCHANGED <<fixture, scanned, pending, pattern_context, original, module, patcher>>

FormatPushes(line, cursor) ==
    /\ output' = [output EXCEPT !.lines = Append(@, line)]
    /\ pending' = cursor
    /\ UNCHANGED <<fixture, pc, scanned, pattern_context, original, module, patcher>>

\* The names of the events that are formatted as their name.
MarkerNames ==
    [ShotStart |-> "start", TupleStart |-> "tuple_start", TupleEnd |-> "tuple_end",
     ArrayStart |-> "array_start", ArrayEnd |-> "array_end"]

\* The match on the kind of the execution result.
FormatResultType ==
    /\ pc = "try_new"
    /\ IF module.kind = "I8"
       THEN /\ pc' = "walk"
            /\ UNCHANGED <<fixture, scanned, pending, pattern_context, output, original,
                           module, patcher>>
       ELSE FormatReturns([ok |-> FALSE, lines |-> <<>>,
                           error |-> [NoFormatError EXCEPT !.tag = "UnimplementedResultType"]])

\* The event under the cursor, if the two loops have one.
AtEvent ==
    /\ pc = "walk"
    /\ pending[1] < Len(module.shots)
    /\ pending[2] <= Len(module.mapping)

shot_id == pending[1] + 1

recorded_output == module.mapping[pending[2]]

\* A formatter that numbers the shots from 0.
FormatResultShotIndex ==
    /\ AtEvent
    /\ recorded_output.variant = "ResultReadoutOffset"
    /\ LET shot == module.shots[pending[1] + 1]
           index == recorded_output.index
       IN  IF index < Len(shot)
           THEN FormatPushes(Line(shot_id, "result", shot[index + 1], recorded_output.tag),
                             <<pending[1], pending[2] + 1>>)
           ELSE FormatReturns([ok |-> FALSE, lines |-> <<>>,
                               error |-> [tag |-> "NoShotDataAtIndex",
                                          shot_id |-> pending[1], index |-> index]])

\* ResultReadoutOffset: the value of the shot at the index, or the error.
FormatResult ==
    /\ AtEvent
    /\ recorded_output.variant = "ResultReadoutOffset"
    /\ LET shot == module.shots[pending[1] + 1]
           index == recorded_output.index
       IN  IF index < Len(shot)
           THEN FormatPushes(Line(shot_id, "result", shot[index + 1], recorded_output.tag),
                             <<pending[1], pending[2] + 1>>)
           ELSE FormatReturns([ok |-> FALSE, lines |-> <<>>,
                               error |-> [tag |-> "NoShotDataAtIndex",
                                          shot_id |-> shot_id, index |-> index]])

\* ShotStart, TupleStart, TupleEnd, ArrayStart, ArrayEnd: one line.
FormatMarker ==
    /\ AtEvent
    /\ recorded_output.variant \in DOMAIN MarkerNames
    /\ FormatPushes(Line(shot_id, MarkerNames[recorded_output.variant], 0, ""),
                    <<pending[1], pending[2] + 1>>)

\* ShotEnd: one line, and the walk goes to the next shot.
FormatShotEnd ==
    /\ AtEvent
    /\ recorded_output.variant = "ShotEnd"
    /\ FormatPushes(Line(shot_id, "end", 0, ""), <<pending[1] + 1, 1>>)

\* BoolReadoutOffset, IntegerReadoutOffset, DoubleReadoutOffset.
FormatUnimplemented ==
    /\ AtEvent
    /\ recorded_output.variant \in
            {"BoolReadoutOffset", "IntegerReadoutOffset", "DoubleReadoutOffset"}
    /\ FormatReturns([ok |-> FALSE, lines |-> <<>>,
                      error |-> [NoFormatError EXCEPT !.tag = "UnimplementedRecordType"]])

\* The mapping has no further event: the walk goes to the next shot.
FormatNextShot ==
    /\ pc = "walk"
    /\ pending[1] < Len(module.shots)
    /\ pending[2] > Len(module.mapping)
    /\ pending' = <<pending[1] + 1, 1>>
    /\ UNCHANGED <<fixture, pc, scanned, pattern_context, output, original, module, patcher>>

\* No further shot: Ok(Self(output)).
FormatDone ==
    /\ pc = "walk"
    /\ pending[1] >= Len(module.shots)
    /\ FormatReturns([output EXCEPT !.ok = TRUE])

NextFormat ==
    \/ FormatResultType
    \/ FormatResult
    \/ FormatMarker
    \/ FormatShotEnd
    \/ FormatUnimplemented
    \/ FormatNextShot
    \/ FormatDone

SpecFormat == InitFormat /\ [][NextFormat]_vars

\* The number of events of the schedule that are processed for a shot: those
\* up to and including the first ShotEnd.
ProcessedLength ==
    LET ends == {k \in 1..Len(module.mapping) : module.mapping[k].variant = "ShotEnd"}
    IN  IF ends = {} THEN Len(module.mapping)
        ELSE CHOOSE k \in ends : \A j \in ends : k <= j

\* The (shot, event) pairs of the walk; Before is their order.
WalkPairs == (1..Len(module.shots)) \X (1..ProcessedLength)

Before(p, q) == p[1] < q[1] \/ (p[1] = q[1] /\ p[2] <= q[2])

OutOfRange(p) ==
    /\ module.mapping[p[2]].variant = "ResultReadoutOffset"
    /\ module.mapping[p[2]].index >= Len(module.shots[p[1]])

NotImplemented(p) ==
    module.mapping[p[2]].variant \in
        {"BoolReadoutOffset", "IntegerReadoutOffset", "DoubleReadoutOffset"}

FirstOf(pairs) == CHOOSE p \in pairs : \A q \in pairs : Before(p, q)

\* The line of a processed pair that is in range.
LineOf(p) ==
    LET event == module.mapping[p[2]] IN
    CASE event.variant = "ShotStart" -> Line(p[1], "start", 0, "")
      [] event.variant = "ShotEnd" -> Line(p[1], "end", 0, "")
      [] event.variant = "TupleStart" -> Line(p[1], "tuple_start", 0, "")
      [] event.variant = "TupleEnd" -> Line(p[1], "tuple_end", 0, "")
      [] event.variant = "ArrayStart" -> Line(p[1], "array_start", 0, "")
      [] event.variant = "ArrayEnd" -> Line(p[1], "array_end", 0, "")
      [] OTHER -> Line(p[1], "result", module.shots[p[1]][event.index + 1], event.tag)

\* One line per processed event per shot, shot after shot.
AllLines ==
    [j \in 1..(Len(module.shots) * ProcessedLength) |->
        LineOf(<<((j - 1) \div ProcessedLength) + 1, ((j - 1) % ProcessedLength) + 1>>)]

NoShotDataAtFirstOutOfRange ==
    LET bad == FirstOf({p \in WalkPairs : OutOfRange(p)})
    IN  /\ ~output.ok
        /\ output.lines = <<>>
        /\ output.error = [tag |-> "NoShotDataAtIndex", shot_id |-> bad[1],
                           index |-> module.mapping[bad[2]].index]

\* C22, as stated: try_new returns NoShotDataAtIndex(s, i) and no line for
\* the first (shot, event) pair of the walk whose readout offset i is not
\* below the length of the data of shot s; with no such pair it returns one
\* line per processed event per shot.
C22_NoShotDataOrAllLines ==
    pc = "returned" =>
        IF \E p \in WalkPairs : OutOfRange(p)
        THEN NoShotDataAtFirstOutOfRange
        ELSE output.ok /\ output.lines = AllLines

\* C22, amended: the statement holds for I8 data when no bool, integer or
\* double event is processed before the first out-of-range pair (or at all,
\* when there is none); for other data try_new returns
\* UnimplementedResultType, and at a bool, integer or double event processed
\* first it returns UnimplementedRecordType, in both cases without a line.
C22_NoShotDataOrAllLinesForImplemented ==
    pc = "returned" =>
        LET stops == {p \in WalkPairs : OutOfRange(p) \/ NotImplemented(p)} IN
        IF module.kind # "I8"
        THEN ~output.ok /\ output.lines = <<>> /\ output.error.tag = "UnimplementedResultType"
        ELSE IF stops = {} THEN output.ok /\ output.lines = AllLines
        ELSE IF NotImplemented(FirstOf(stops))
        THEN ~output.ok /\ output.lines = <<>> /\ output.error.tag = "UnimplementedRecordType"
        ELSE NoShotDataAtFirstOutOfRange

C22_Witness ==
    /\ pc = "returned"
    /\ module.kind = "I8"
    /\ Len(module.shots) = 2
    /\ Len(module.shots[1]) = 3
    /\ Len(module.shots[2]) = 2
    /\ Len(output.lines) = 0
    /\ output.error = [tag |-> "NoShotDataAtIndex", shot_id |-> 2, index |-> 2]

\* The other case of C22: every pair is in range and each gives a line.
C22_AllLinesReturned ==
    /\ pc = "returned"
    /\ output.ok
    /\ Len(module.shots) = 2
    /\ Len(output.lines) = 10

HasShotStart ==
    \E i \in 1..Len(pattern_context.recorded_output) :
        pattern_context.recorded_output[i].tag = "ShotStart"

\* The matcher has not entered the body of a loop.
NotStarted ==
    /\ ~pattern_context.initial_instruction.some
    /\ ~HasShotStart
    /\ pattern_context.instructions_to_remove = <<>>
    /\ pattern_context.quil_program = NewProgram
    /\ ~output.ok

\* C23: in a shot-count scan of a block whose first instruction is not a phi
\* the matcher never enters the body: no initial_instruction, no ShotStart,
\* no instruction consumed and no match, also when a phi comes later.
C23_BodyOnlyAfterLeadingPhi ==
    fixture.format = "shot_count" /\ scanned # <<>> /\ scanned[1].opcode # "Phi" =>
        NotStarted

\* C23, for the blocks with no phi after another instruction: the claim
\* holds.
C23_HoldsWithoutLaterPhi ==
    /\ fixture.format = "shot_count"
    /\ scanned # <<>>
    /\ scanned[1].opcode # "Phi"
    /\ \A i \in 2..Len(scanned) : scanned[i].opcode # "Phi"
    => NotStarted

C23_Witness ==
    /\ fixture.format = "shot_count"
    /\ pc = "built"
    /\ output.ok
    /\ scanned[1].opcode # "Phi"
    /\ scanned[2].opcode = "Phi"
    /\ HasShotStart

\* The instruction at position i is the full loop end: an add of the
\* constant 1 to the loop variable, then an icmp, then a branch on the icmp.
IsLoopEndTriple(i) ==
    /\ scanned[i].opcode = "Add"
    /\ scanned[i].ints[2] = IntConst(1)
    /\ scanned[i].ints[1] = InstValue(PhiPosition)
    /\ Len(scanned[i].tail) >= 2
    /\ scanned[i].tail[1].opcode = "ICmp"
    /\ scanned[i].tail[2].opcode = "Br"
    /\ scanned[i].tail[2].first_use

\* The scan was stopped as at a loop end on the instruction at position i.
StoppedAt(i) == i = Len(scanned) /\ HasShotEnd

\* An add that is not of the constant 1, or not to the loop variable, or not
\* followed by an icmp.
IsOtherAdd(i) ==
    /\ scanned[i].opcode = "Add"
    /\ \/ scanned[i].ints[2] # IntConst(1)
       \/ scanned[i].ints[1] # InstValue(PhiPosition)
       \/ scanned[i].tail = <<>>
       \/ scanned[i].tail[1].opcode # "ICmp"

\* C24: a shot-count scan is stopped as at the loop end only on an add of
\* the constant 1 to the loop variable that is followed by an icmp and a
\* branch on it; on any other add the scan neither stops nor fails.
C24_StopsOnlyAtLoopEndTriple ==
    fixture.format = "shot_count" =>
        \A i \in Offered :
            /\ StoppedAt(i) => IsLoopEndTriple(i)
            /\ IsOtherAdd(i) => ~StoppedAt(i) /\ ~FailedAt(i)

\* C24, for the adds whose operand 1 is not the constant 1 and the adds that
\* end the block: they are left in place; the check of the code is on the
\* constant and on the presence of a next instruction only.
C24_HoldsForOtherIncrements ==
    fixture.format = "shot_count" =>
        \A i \in Offered :
            /\ StoppedAt(i) =>
                    /\ scanned[i].opcode = "Add"
                    /\ scanned[i].ints[2] = IntConst(1)
                    /\ scanned[i].tail # <<>>
            /\ scanned[i].opcode = "Add"
               /\ (scanned[i].ints[2] # IntConst(1) \/ scanned[i].tail = <<>>) =>
                    ~StoppedAt(i) /\ ~FailedAt(i)

\* A scan stopped on an add of 1 that no icmp follows.
C24_Witness ==
    /\ fixture.format = "shot_count"
    /\ \E i \in Offered :
          /\ StoppedAt(i)
          /\ scanned[i].ints[2] = IntConst(1)
          /\ scanned[i].tail = <<Plain("Other")>>
          /\ ~pattern_context.shot_count.some

\* A scan stopped on an add of 1 to a value that is not the loop variable.
C24_AddToAnotherValue ==
    /\ fixture.format = "shot_count"
    /\ \E i \in Offered :
          /\ StoppedAt(i)
          /\ scanned[i].ints[1] = InstValue(0)
          /\ pattern_context.shot_count.some

\* The instruction at position i is an add of the constant 1 followed by an
\* icmp.
IsAddThenIcmp(i) ==
    /\ scanned[i].opcode = "Add"
    /\ scanned[i].ints[2] = IntConst(1)
    /\ scanned[i].tail # <<>>
    /\ scanned[i].tail[1].opcode = "ICmp"

\* The add/icmp/br triple at position i is incoherent.
IsIncoherent(i) ==
    \/ scanned[i].tail[1].ints[1] # InstValue(PhiPosition)
    \/ scanned[i].tail[1].ints[2].vk # "const"
    \/ Len(scanned[i].tail) < 2
    \/ scanned[i].tail[2].opcode # "Br"
    \/ ~scanned[i].tail[2].first_use

\* C25: on an add of the constant 1 that is followed by an icmp, when the
\* triple is incoherent (operand 0 of the icmp is not the loop variable, its
\* operand 1 is no integer constant, no instruction follows the icmp, or that
\* instruction is no branch on the icmp), the match fails with an error and
\* no shot count is set.
C25_IncoherentTripleFails ==
    fixture.format = "shot_count" =>
        \A i \in Offered :
            IsAddThenIcmp(i) /\ IsIncoherent(i) =>
                /\ FailedAt(i)
                /\ ~pattern_context.shot_count.some
                /\ ~HasShotEnd
                /\ ~output.ok

\* C25, for the icmp instructions whose operand 0 is an integer: the claim
\* holds.
C25_HoldsForIntegerIcmp ==
    fixture.format = "shot_count" =>
        \A i \in Offered :
            /\ IsAddThenIcmp(i)
            /\ IsIncoherent(i)
            /\ scanned[i].tail[1].ints[1].vk # "nonint"
            => /\ FailedAt(i)
               /\ ~pattern_context.shot_count.some
               /\ ~HasShotEnd
               /\ ~output.ok

\* An icmp of two values that are no integers after the add: the scan stops
\* as at a loop end, without a shot count and without an error.
C25_Witness ==
    /\ fixture.format = "shot_count"
    /\ \E i \in Offered :
          /\ IsAddThenIcmp(i)
          /\ scanned[i].tail[1].ints[1] = NotInt
          /\ StoppedAt(i)
          /\ ~FailedAt(i)
          /\ ~pattern_context.shot_count.some

\* The record_output calls among the instructions the matcher consumed.
RecordCallEvents == EventsOf(SelectSeq(Body, LAMBDA i : IsRecordOutput(i, EventKinds)))

\* C26: the recorded_output of a shot-count transpile that returned a
\* program is ShotStart, then the events of the record_output calls of the
\* block in the order of the calls, then ShotEnd, and holds no other
\* ShotStart or ShotEnd; during the scan the list under construction is a
\* prefix of that shape.
C26_ShotStartEventsShotEnd ==
    fixture.format = "shot_count" =>
        /\ HasShotStart =>
                pattern_context.recorded_output =
                    <<Event("ShotStart", 0)>> \o RecordCallEvents
                        \o (IF HasShotEnd THEN <<Event("ShotEnd", 0)>> ELSE <<>>)
        /\ output.ok =>
                output.recorded_output =
                    <<Event("ShotStart", 0)>> \o RecordCallEvents
                        \o <<Event("ShotEnd", 0)>>

C26_Witness ==
    /\ fixture.format = "shot_count"
    /\ pc = "built"
    /\ output.ok
    /\ Len(output.recorded_output) = 3
    /\ output.recorded_output[2].tag \in {"TupleStart", "ArrayStart", "TupleEnd", "ArrayEnd"}

C26_TwoEventsInCallOrder ==
    /\ fixture.format = "shot_count"
    /\ Len(pattern_context.recorded_output) = 4
    /\ pattern_context.recorded_output[2].tag # pattern_context.recorded_output[3].tag
    /\ HasShotEnd

\* C27: in every state of a shot-count scan ShotEnd is in recorded_output
\* only if shot_count is set.
C27_ShotEndOnlyWithShotCount ==
    fixture.format = "shot_count" /\ HasShotEnd => pattern_context.shot_count.some

\* The same with the loop ends left out whose add of 1 is followed by an
\* instruction that is no icmp on an integer value.
C27_HoldsWhenIcmpOnIntegerFollows ==
    /\ fixture.format = "shot_count"
    /\ HasShotEnd
    /\ scanned[Len(scanned)].tail # <<>>
    /\ scanned[Len(scanned)].tail[1].opcode = "ICmp"
    /\ scanned[Len(scanned)].tail[1].ints[1].vk # "nonint"
    => pattern_context.shot_count.some

C27_Witness ==
    /\ fixture.format = "shot_count"
    /\ HasShotEnd
    /\ pattern_context.shot_count.some
    /\ pattern_context.shot_count.v > 0

C27_ShotEndWithoutShotCount ==
    /\ fixture.format = "shot_count"
    /\ HasShotEnd
    /\ ~pattern_context.shot_count.some
    /\ scanned[Len(scanned)].tail[1].opcode # "ICmp"

\* A call of a QIS gate, measure, reset or read_result intrinsic.
IsRecognizedQis(instruction) ==
    /\ instruction.opcode = "Call"
    /\ \/ /\ QIS_INTRINSIC_REGEX(instruction.callee)
          /\ instruction.callee.stem \in DOMAIN GateArms \cup {"reset", "mz"}
       \/ instruction.callee = ReadResultBody

\* The positions, in block order, of the offered instructions of one kind
\* that the scan went past without an error.
ConsumedPositions(Kind(_)) ==
    SelectSeq([i \in 1..Len(scanned) |-> i],
              LAMBDA i : i \in Offered /\ ~FailedAt(i) /\ Kind(scanned[i]))

IsConsumedCall(instruction) ==
    IsRecognizedQis(instruction) \/ IsRecordOutput(instruction, EventKinds)

\* C28: at every point of a shot-count scan instructions_to_remove holds
\* exactly the consumed calls, in block order: the recognized QIS gate,
\* measure, reset and read_result calls and the recognized record_output
\* calls, and no other instruction.
C28_ExactlyTheConsumedCalls ==
    fixture.format = "shot_count" =>
        pattern_context.instructions_to_remove = ConsumedPositions(IsConsumedCall)

\* What holds: instructions_to_remove is exactly the consumed QIS calls.
C28_ExactlyTheConsumedQisCalls ==
    fixture.format = "shot_count" =>
        pattern_context.instructions_to_remove = ConsumedPositions(IsRecognizedQis)

C28_Witness ==
    /\ fixture.format = "shot_count"
    /\ Len(pattern_context.instructions_to_remove) = 2
    /\ \E i \in Offered :
          /\ ~FailedAt(i)
          /\ IsRecordOutput(scanned[i], EventKinds)
          /\ i \notin Range(pattern_context.instructions_to_remove)
          /\ Len(pattern_context.recorded_output) >= 2

\* The callees of a list of calls.
Callees(calls) == [i \in 1..Len(calls) |-> calls[i].callee]

\* The blocks with an edge to the given block.
PredecessorsOf(block) == {b \in DOMAIN module.cfg : block \in Targets(module.cfg[b])}

\* C29: once the execution block of a matched block is built its calls are,
\* in order: get_executable when executables are cached and
\* executable_from_quil otherwise, wrap_in_shots, one set_param per
\* parameter slot in slot order, one execute call (execute_on_qpu exactly
\* when the target is a QPU), panic_on_failure; the block ends with a branch
\* to the block.  free_execution_result is called in the cleanup block only,
\* which is entered from the block alone, after every get_readout_bit call
\* has been built into the block; the block is entered again only through
\* the execution block.
C29_ExecutionBlockCallOrder ==
    patcher.pc \in {"execution", "cleanup", "retargeted", "removing", "done", "panic"} =>
        LET n == Len(pattern_context.parameters)
            callees == Callees(module.execution)
        IN  /\ Len(callees) = n + 4
            /\ callees[1] = IF module.options.cache_executables
                            THEN "get_executable" ELSE "executable_from_quil"
            /\ callees[2] = "wrap_in_shots"
            /\ \A i \in 1..n :
                  /\ callees[2 + i] = "set_param"
                  /\ module.execution[2 + i].n = i - 1
                  /\ module.execution[2 + i].value = pattern_context.parameters[i]
            /\ callees[n + 3] = IF module.options.target = "Qpu"
                                THEN "execute_on_qpu" ELSE "execute_on_qvm"
            /\ callees[n + 4] = "panic_on_failure"
            /\ module.cfg[ExecutionBlock] = Branch(BlockName)
            /\ module.cleanup # <<>> =>
                  /\ Callees(module.cleanup) = <<"free_execution_result">>
                  /\ Len(module.readout_calls) = Len(pattern_context.readout_instruction_mapping)
            /\ patcher.pc \in {"retargeted", "removing", "done", "panic"} =>
                  /\ PredecessorsOf(CleanupBlock) = {BlockName}
                  /\ module.cfg[BlockName].else_block = CleanupBlock
                  /\ PredecessorsOf(BlockName) = {ExecutionBlock, BlockName}

C29_Witness ==
    /\ patcher.pc = "done"
    /\ Len(pattern_context.parameters) >= 1
    /\ Len(module.readout_calls) = 2
    /\ module.cleanup # <<>>
    /\ Len(module.execution) = 5

\* The rewrite of the control flow is complete.
Retargeted == patcher.pc \in {"retargeted", "removing", "done", "panic"}

\* The edges of the rewritten block: other blocks enter through the
\* execution block, whose only successor is the block, and the terminator
\* of the block goes to the block on true and to the cleanup block on false,
\* on the comparison it had.
RewrittenEdges ==
    /\ \A b \in DOMAIN original.cfg \ {BlockName} :
          module.cfg[b] = replace_all_uses_with(original.cfg[b], BlockName, ExecutionBlock)
    /\ \A b \in DOMAIN module.cfg \ {BlockName, ExecutionBlock} :
          BlockName \notin Targets(module.cfg[b])
    /\ Targets(module.cfg[ExecutionBlock]) = {BlockName}
    /\ module.cfg[BlockName] = ConditionalBranch(BlockName, CleanupBlock)
    /\ NewBranch \in module.uses[InBlock(Len(scanned) + 1)]

\* C30: after the rewrite of a matched block every branch from another
\* block into the block goes to the execution block, the only successor of
\* the execution block is the block, the terminator of the block goes to the
\* block on true and to the cleanup block on false on the same comparison,
\* and the execution block runs once per entry into the loop: neither the
\* block nor its cleanup block branches to it.
C30_ExecutionOncePerEntry ==
    Retargeted =>
        /\ RewrittenEdges
        /\ ExecutionBlock \notin Targets(module.cfg[BlockName])
        /\ ExecutionBlock \notin Targets(module.cfg[CleanupBlock])

\* The same for the blocks whose false edge left the block before the
\* rewrite.
C30_HoldsWhenElseTargetIsAnotherBlock ==
    Retargeted /\ original.cfg[BlockName].else_block # BlockName =>
        /\ RewrittenEdges
        /\ ExecutionBlock \notin Targets(module.cfg[BlockName])
        /\ ExecutionBlock \notin Targets(module.cfg[CleanupBlock])

\* The edges alone hold for every matched block.
C30_EdgesRewritten == Retargeted => RewrittenEdges

C30_Witness ==
    /\ patcher.pc = "done"
    /\ original.cfg[BlockName].else_block = BlockName
    /\ RewrittenEdges
    /\ module.cfg[CleanupBlock] = Branch(ExecutionBlock)
    /\ "entry" \in PredecessorsOf(ExecutionBlock)

(***************************************************************************)
(* replace_phi_clauses over a block: scanned is the block as it was,       *)
(* pending the place of the walk in it, module the block as it is, fixture *)
(* the arguments.                                                          *)
(***************************************************************************)

MaxClauses == 2

\* A phi of the block, or another instruction; built marks the phis that
\* replace_phi_clause has built.
PhiInstruction(opcode, id, incoming, built) ==
    [opcode |-> opcode, id |-> id, incoming |-> incoming, built |-> built]

PhiClauses ==
    {Clause(value, block) : value \in {IntConst(0), InstValue(2)},
                            block \in {"entry", BlockName, "other"}}

ClauseLists(longest) == UNION {[1..n -> PhiClauses] : n \in 0..longest}

InitPhi ==
    /\ pc = "phi"
    /\ pending = 1
    /\ pattern_context = DefaultContext
    /\ output = NoOutput
    /\ original = NoModule
    /\ patcher = NoPatcher
    /\ \E old_basic_block \in {BlockName, "entry"}, reverse_match \in BOOLEAN :
          fixture = [old_basic_block |-> old_basic_block,
                     new_basic_block |-> ExecutionBlock,
                     reverse_match |-> reverse_match]
    /\ \E first \in ClauseLists(MaxClauses), second \in ClauseLists(1), is_phi \in BOOLEAN :
          scanned = <<PhiInstruction("Phi", 1, first, FALSE),
                      IF is_phi THEN PhiInstruction("Phi", 2, second, FALSE)
                      ELSE PhiInstruction("Other", 2, <<>>, FALSE)>>
    /\ module = [block |-> scanned]

\* One turn of the loop of replace_phi_clauses on a phi: the new phi is
\* built before the first instruction of the block and the old one removed.
PhiReplaced ==
    /\ pc = "phi"
    /\ pending <= Len(scanned)
    /\ scanned[pending].opcode = "Phi"
    /\ module' = [block |->
            <<PhiInstruction("Phi", scanned[pending].id,
                             replace_phi_clause(scanned[pending].incoming,
                                                fixture.old_basic_block,
                                                fixture.new_basic_block,
                                                fixture.reverse_match),
                             TRUE)>>
            \o SelectSeq(module.block, LAMBDA i : i # scanned[pending])]
    /\ pending' = pending + 1
    /\ UNCHANGED <<fixture, pc, scanned, pattern_context, output, original, patcher>>

\* One turn of the loop on an instruction that is no phi.
PhiLeft ==
    /\ pc = "phi"
    /\ pending <= Len(scanned)
    /\ scanned[pending].opcode # "Phi"
    /\ pending' = pending + 1
    /\ UNCHANGED <<fixture, pc, scanned, pattern_context, output, original, module, patcher>>

\* The walk is past the last instruction.
PhiClausesReplaced ==
    /\ pc = "phi"
    /\ pending > Len(scanned)
    /\ pc' = "phi_done"
    /\ UNCHANGED <<fixture, scanned, pending, pattern_context, output, original, module,
                   patcher>>

NextPhi == PhiReplaced \/ PhiLeft \/ PhiClausesReplaced

SpecPhi == InitPhi /\ [][NextPhi]_vars

\* The instructions of the block as it is that stand for the phi with an id.
Standing(id) == SelectSeq(module.block, LAMBDA i : i.opcode = "Phi" /\ i.id = id)

\* C31: replace_phi_clauses keeps one phi per phi of the block; a phi the
\* walk has passed has the clauses of the phi it replaces in number, order
\* and incoming value, and the incoming block of a clause is new_basic_block
\* exactly when the block was old_basic_block (reverse_match false) or was
\* another block (reverse_match true), and is the block it was otherwise; a
\* phi the walk has not reached and every other instruction are as they
\* were.  With the arguments of the patcher the back-edge clause keeps the
\* block and every other clause gets the execution block.
C31_OnlyIncomingBlocksChange ==
    \A p \in 1..Len(scanned) :
        IF scanned[p].opcode = "Phi"
        THEN /\ Len(Standing(scanned[p].id)) = 1
             /\ LET before == scanned[p].incoming
                    after == Standing(scanned[p].id)[1].incoming
                IN  IF p >= pending THEN Standing(scanned[p].id)[1] = scanned[p]
                    ELSE /\ Len(after) = Len(before)
                         /\ \A i \in 1..Len(before) :
                              /\ after[i].value = before[i].value
                              /\ after[i].block =
                                    IF fixture.reverse_match
                                    THEN (IF before[i].block = fixture.old_basic_block
                                          THEN before[i].block ELSE fixture.new_basic_block)
                                    ELSE (IF before[i].block = fixture.old_basic_block
                                          THEN fixture.new_basic_block ELSE before[i].block)
        ELSE \E q \in 1..Len(module.block) : module.block[q] = scanned[p]

C31_Witness ==
    /\ pc = "phi_done"
    /\ fixture.reverse_match
    /\ fixture.old_basic_block = BlockName
    /\ Len(module.block) = 2
    /\ module.block[1].id = 2
    /\ module.block[1].incoming = <<Clause(IntConst(0), ExecutionBlock)>>
    /\ module.block[2].incoming =
            <<Clause(IntConst(0), ExecutionBlock), Clause(InstValue(2), BlockName)>>

C31_WithoutReverseMatch ==
    /\ pc = "phi_done"
    /\ ~fixture.reverse_match
    /\ fixture.old_basic_block = BlockName
    /\ module.block[2].incoming =
            <<Clause(IntConst(0), "entry"), Clause(InstValue(2), ExecutionBlock)>>

\* The places of the read_result calls of the block, in block order.
ReadResultPositions ==
    SelectSeq([i \in 1..Len(scanned) |-> i], LAMBDA i : IsReadResult(scanned[i]))

\* The phi of the block as the module has it.
CurrentPhi ==
    IF NewPhi \in DOMAIN module.uses THEN NewPhi
    ELSE InBlock(pattern_context.initial_instruction.v)

\* C32: once the loop over the recorded read_result calls is through, the
\* block has one get_readout_bit call per read_result call, in block order;
\* its shot index is the phi, its readout index the ro index that
\* read_result_mapping holds for the Result of the call, and it has every
\* use the read_result call had, which is left without a use; when the
\* patcher is done no read_result call is in the block.
C32_OneReadoutBitPerReadResult ==
    patcher.pc \in {"cleanup", "retargeted", "removing", "done", "panic"} =>
        /\ Len(module.readout_calls) = Len(ReadResultPositions)
        /\ \A k \in 1..Len(ReadResultPositions) :
              LET call == InBlock(ReadResultPositions[k])
                  new_instruction == module.readout_calls[k][1]
              IN  /\ new_instruction = ReadoutBit(k)
                  /\ new_instruction \in module.attached
                  /\ new_instruction \in module.uses[CurrentPhi]
                  /\ module.readout_calls[k][2] =
                        pattern_context.read_result_mapping[
                            ResultOf(scanned[ReadResultPositions[k]])]
                  /\ original.uses[call] \subseteq module.uses[new_instruction]
                  /\ module.uses[call] = {}
                  /\ patcher.pc = "done" => call \notin module.attached

C32_Witness ==
    /\ patcher.pc = "done"
    /\ Len(module.readout_calls) = 2
    /\ module.readout_calls[1][2] = 1
    /\ module.readout_calls[2][2] = 0
    /\ Elsewhere \in module.uses[ReadoutBit(1)]
    /\ Elsewhere \in module.uses[ReadoutBit(2)]
    /\ ReadoutBit(1) \in module.uses[NewPhi]

\* The text the execution block gives the library: the program stored for
\* the cache, or the global string.
EmittedText ==
    IF module.options.cache_executables
    THEN to_instructions(module.quil_programs[Len(module.quil_programs)])
    ELSE module.global_strings[Len(module.global_strings)]

\* m of DECLARE __qir_param REAL[m] in the text, 0 without the declaration.
DeclaredParameters ==
    LET declarations ==
            SelectSeq(EmittedText,
                      LAMBDA i : i.kind = "Declaration" /\ i.name = "__qir_param")
    IN  IF declarations = <<>> THEN 0 ELSE declarations[1].length

SetParamCalls == SelectSeq(module.execution, LAMBDA call : call.callee = "set_param")

\* The gates of the text and the calls of the block they were made from.
EmittedGates == SelectSeq(EmittedText, LAMBDA i : i.kind = "Gate")
GateCalls == SelectSeq(Body, LAMBDA i : IsQisCall(i, GateOps))

\* C33: the execution block has one set_param call per slot of the declared
\* __qir_param region, the i-th with index i - 1 and with the value that the
\* gates of the text referring to __qir_param[i - 1] have as angle in the
\* block; every slot is referred to by a gate, and no call passes a constant.
C33_OneSetParamPerDeclaredSlot ==
    patcher.pc \in {"execution", "cleanup", "retargeted", "removing", "done", "panic"} =>
        /\ Len(SetParamCalls) = DeclaredParameters
        /\ Len(EmittedGates) = Len(GateCalls)
        /\ \A i \in 1..Len(SetParamCalls) :
              /\ SetParamCalls[i].n = i - 1
              /\ ~SetParamCalls[i].value.is_const
              /\ \E k \in 1..Len(EmittedGates) :
                    EmittedGates[k].parameters = <<Address("__qir_param", i - 1)>>
        /\ \A k \in 1..Len(EmittedGates) :
              \A j \in 1..Len(EmittedGates[k].parameters) :
                 IF EmittedGates[k].parameters[j].tag = "Address"
                 THEN /\ EmittedGates[k].parameters[j].n < Len(SetParamCalls)
                      /\ SetParamCalls[EmittedGates[k].parameters[j].n + 1].value =
                            GateCalls[k].args[j]
                 ELSE GateCalls[k].args[j].is_const

C33_Witness ==
    /\ patcher.pc = "done"
    /\ DeclaredParameters = 2
    /\ Len(SetParamCalls) = 2
    /\ SetParamCalls[1].value = SsaFloat(2)
    /\ SetParamCalls[2].value = SsaFloat(1)
    /\ Len(EmittedGates) = 4
    /\ EmittedGates[2].parameters[1].tag = "Number"
    /\ EmittedGates[4].parameters = EmittedGates[1].parameters

\* The instructions the list of remove_instructions_in_safe_order held when
\* it was called.
Listed == {InBlock(p) : p \in Range(pattern_context.instructions_to_remove)}

\* The instructions a step takes out of the block.
RemovedInStep == (module.attached \ module.attached') \cap Listed

\* A step of the removal removes only instructions without a use, and a
\* removal that returned has removed every listed instruction.
RemovesOnlyUnused ==
    /\ patcher.pc = "removing" => \A v \in RemovedInStep : module.uses[v] = {}
    /\ patcher'.pc = "done" => Listed \cap module.attached' = {}

\* C34: remove_instructions_in_safe_order removes an instruction only when
\* it has no use at that moment, has removed every listed instruction when
\* it returns, and ends a sweep that removed nothing of a non-empty list by
\* returning an error to its caller: the process is not aborted.
C34_UseCycleIsReturned ==
    [][RemovesOnlyUnused /\ patcher'.pc # "panic"]_vars

\* What holds: the same with the process aborted by the sweep that removed
\* nothing.
C34_SweepWithoutProgressPanics ==
    [][/\ RemovesOnlyUnused
       /\ patcher'.pc = "panic" =>
            /\ patcher.pc = "removing"
            /\ patcher.instructions # <<>>
            /\ RemovedInStep = {}
            /\ UNCHANGED module]_vars

C34_Witness ==
    /\ patcher.pc = "panic"
    /\ patcher.instructions # <<>>
    /\ \A i \in 1..Len(patcher.instructions) :
          /\ InBlock(patcher.instructions[i]) \in module.attached
          /\ module.uses[InBlock(patcher.instructions[i])] # {}

\* The patcher with the removal loop always taking its next sweep.
SpecPatchLive == SpecPatch /\ WF_vars(RemoveRound)

\* C35: every sweep of the removal shortens the list or ends the removal
\* with a failure, and the removal always ends, with the list empty or with
\* the failure.
C35_RemovalEnds ==
    /\ [][patcher.pc = "removing" =>
            \/ Len(patcher'.instructions) < Len(patcher.instructions)
            \/ patcher'.pc = "panic" /\ patcher'.instructions = patcher.instructions]_vars
    /\ [](patcher.pc = "removing" => <>(patcher.pc \in {"done", "panic"}))
    /\ [](patcher.pc = "done" => patcher.instructions = <<>>)
    /\ [](patcher.pc = "panic" => patcher.instructions # <<>>)

\* A removal that took two sweeps: the first removed an instruction, the
\* second none.
C35_Witness ==
    /\ patcher.pc = "panic"
    /\ Len(pattern_context.instructions_to_remove) >= 3
    /\ Len(patcher.instructions) < Len(pattern_context.instructions_to_remove)

(***************************************************************************)
(* transpile_module over the functions of a module.  pending is the stack  *)
(* of the calls of transpile_function with the place of each in its        *)
(* function, scanned the functions transpile_function was called on in     *)
(* order, module the blocks, the stored programs and the execution blocks  *)
(* built.  An instruction of a block is the phi ("phi"), a QIS gate call   *)
(* ("q"), the add / icmp / br of the loop end ("end"), or a call without   *)
(* arguments of a function of the module, written as the name of the       *)
(* function.  The blocks a patch inserts hold no phi, so a scan of them    *)
(* matches nothing and follows no call; they are left out.                 *)
(***************************************************************************)

MaxEntryBlocks == 2

DriverBlock(items) == [items |-> items, removed |-> {}, version |-> 0]

\* Blocks: a loop with a call between its gates, a phi followed by two
\* calls, a call in front of a loop, a loop without a call.
LoopWithCall(callee) == DriverBlock(<<"phi", "q", callee, "q", "end">>)
TwoCalls(first, second) == DriverBlock(<<"phi", first, second>>)
CallBeforeLoop(callee) == DriverBlock(<<callee, "phi", "q", "end">>)
LoopAlone == DriverBlock(<<"phi", "q", "end">>)

RECURSIVE BlockLists(_, _)
\* The lists of 1..longest blocks with the first block from one set and
\* the later blocks from another.
BlockLists(firsts, longest) ==
    IF longest = 1 THEN {<<b>> : b \in firsts}
    ELSE BlockLists(firsts, longest - 1)
         \cup {Append(list, b) : list \in {l \in BlockLists(firsts, longest - 1) :
                                              Len(l) = longest - 1},
                                 b \in {LoopAlone, LoopWithCall("f")}}

DriverShapes ==
    {LoopWithCall(callee) : callee \in {"entry", "f", "g"}}
    \cup {TwoCalls("f", "f"), TwoCalls("f", "g"), TwoCalls("g", "f")}
    \cup {CallBeforeLoop("f"), LoopAlone}

\* The modules: the entry point, f with one block, and g, which is declared
\* only or has one block.
DriverModules ==
    {[entry |-> entry, f |-> <<f>>, g |-> g] :
        entry \in BlockLists(DriverShapes, MaxEntryBlocks),
        f \in DriverShapes,
        g \in {<<>>, <<LoopAlone>>, <<LoopWithCall("entry")>>}}

RECURSIVE FirstFrom(_, _)
\* The first instruction still in the block at or after a place.
FirstFrom(block, place) ==
    IF place > Len(block.items) THEN place
    ELSE IF place \in block.removed THEN FirstFrom(block, place + 1)
    ELSE place

\* transpile_function(function, visited_functions) at the start of the
\* block with an index: the blocks are those the function had when it was
\* called, the pattern context is the default one.
Frame(function, blocks, block, visited_functions) ==
    [function |-> function, blocks |-> blocks, block |-> block,
     at |-> 1,
     visited_functions |-> visited_functions,
     initial_instruction |-> FALSE, phi_version |-> 0,
     instructions_to_remove |-> {}, shot_count |-> FALSE]

InitDriver ==
    /\ fixture = Config("reduction", "shot_count", "")
    /\ pc = "drive"
    /\ scanned = <<"entry">>
    /\ pattern_context = DefaultContext
    /\ output = NoOutput
    /\ patcher = NoPatcher
    /\ \E functions \in DriverModules, cache_executables \in BOOLEAN :
          /\ module = [options |-> [cache_executables |-> cache_executables,
                                    target |-> "Qvm"],
                       functions |-> functions,
                       quil_programs |-> <<>>,
                       global_strings |-> <<>>,
                       execution |-> <<>>,
                       populate_executable_array |-> <<>>,
                       entry_calls |-> <<>>]
          /\ pending = <<Frame("entry", Len(functions["entry"]), 1, <<>>)>>
    /\ original = module

\* The call of transpile_function that is running, and its block.
Top == pending[Len(pending)]
TopBlock == module.functions[Top.function][Top.block]
\* The place of the scan: the instruction it holds, or the first one after
\* it that is still in the block when a patch has removed that one.
TopAt == FirstFrom(TopBlock, Top.at)
Scanning ==
    /\ pc = "drive"
    /\ pending # <<>>
    /\ Top.block <= Top.blocks
    /\ TopAt <= Len(TopBlock.items)
TopItem == TopBlock.items[TopAt]

\* The running call goes on with the instruction after the current one.
Advance(frame) == [frame EXCEPT !.at = TopAt + 1]
Replace(frame) == [pending EXCEPT ![Len(pending)] = frame]

\* No loop start yet and the instruction is the phi.
DriverLoopStart ==
    /\ Scanning
    /\ ~Top.initial_instruction
    /\ TopItem = "phi"
    /\ pending' = Replace([Advance(Top) EXCEPT !.initial_instruction = TRUE,
                                               !.phi_version = TopBlock.version])
    /\ UNCHANGED <<fixture, pc, scanned, pattern_context, output, original, module, patcher>>

\* No loop start yet and the instruction is no phi: nothing else is tried.
DriverBeforeLoopStart ==
    /\ Scanning
    /\ ~Top.initial_instruction
    /\ TopItem # "phi"
    /\ pending' = Replace(Advance(Top))
    /\ UNCHANGED <<fixture, pc, scanned, pattern_context, output, original, module, patcher>>

\* quantum_instruction matches.
DriverQuantumInstruction ==
    /\ Scanning
    /\ Top.initial_instruction
    /\ TopItem = "q"
    /\ pending' = Replace([Advance(Top) EXCEPT !.instructions_to_remove = @ \cup {TopAt}])
    /\ UNCHANGED <<fixture, pc, scanned, pattern_context, output, original, module, patcher>>

\* shot_count_loop_end matches: the icmp is on the phi the scan started
\* with, the shot count is set and the scan of the block ends.
DriverLoopEnd ==
    /\ Scanning
    /\ Top.initial_instruction
    /\ TopItem = "end"
    /\ Top.phi_version = TopBlock.version
    /\ pending' = Replace([Top EXCEPT !.shot_count = TRUE, !.at = Len(TopBlock.items) + 1])
    /\ UNCHANGED <<fixture, pc, scanned, pattern_context, output, original, module, patcher>>

\* shot_count_loop_end fails: the phi of the block was replaced by a patch
\* of the block since the scan started, so the icmp is on another value.
DriverLoopEndFails ==
    /\ Scanning
    /\ Top.initial_instruction
    /\ TopItem = "end"
    /\ Top.phi_version # TopBlock.version
    /\ pc' = "error"
    /\ UNCHANGED <<fixture, scanned, pending, pattern_context, output, original, module, patcher>>

\* A callback that gets the list of visited functions as it is.
DriverNestedCallNoName ==
    /\ Scanning
    /\ Top.initial_instruction
    /\ TopItem \in DOMAIN module.functions
    /\ \A i \in 1..Len(Top.visited_functions) : Top.visited_functions[i] # TopItem
    /\ pending' = Append(Replace(Advance(Top)),
                         Frame(TopItem, Len(module.functions[TopItem]), 1,
                               Top.visited_functions))
    /\ scanned' = Append(scanned, TopItem)
    /\ UNCHANGED <<fixture, pc, pattern_context, output, original, module, patcher>>

\* A call whose callee is not in visited_functions and is a function of the
\* module: transpile_function is called on it with its name added.
DriverNestedCall ==
    /\ Scanning
    /\ Top.initial_instruction
    /\ TopItem \in DOMAIN module.functions
    /\ \A i \in 1..Len(Top.visited_functions) : Top.visited_functions[i] # TopItem
    /\ pending' = Append(Replace(Advance(Top)),
                         Frame(TopItem, Len(module.functions[TopItem]), 1,
                               Append(Top.visited_functions, TopItem)))
    /\ scanned' = Append(scanned, TopItem)
    /\ UNCHANGED <<fixture, pc, pattern_context, output, original, module, patcher>>

\* A call of a function in visited_functions stays in place.
DriverLeftInPlace ==
    /\ Scanning
    /\ Top.initial_instruction
    /\ TopItem \in DOMAIN module.functions
    /\ \E i \in 1..Len(Top.visited_functions) : Top.visited_functions[i] = TopItem
    /\ pending' = Replace(Advance(Top))
    /\ UNCHANGED <<fixture, pc, scanned, pattern_context, output, original, module, patcher>>

\* The scan of the block is over.
Scanned ==
    /\ pc = "drive"
    /\ pending # <<>>
    /\ Top.block <= Top.blocks
    /\ TopAt > Len(TopBlock.items)

\* get_program_data: a shot count and an instruction in the program.
driver_program_data(frame) == frame.shot_count /\ frame.instructions_to_remove # {}

\* The program of a block as stored: the block and the gates it was made of.
DriverProgram(frame) ==
    [function |-> frame.function, block |-> frame.block,
     instructions |-> frame.instructions_to_remove]

\* A patch that reads the cache at the number of programs stored after its
\* own.
DriverInsertQuilProgramAfterPush ==
    /\ Scanned
    /\ driver_program_data(Top)
    /\ LET cached == module.options.cache_executables
           quil_program_index == Len(module.quil_programs) + 1
       IN  module' =
            [module EXCEPT
                !.functions[Top.function][Top.block] =
                    [@ EXCEPT !.removed = @ \cup Top.instructions_to_remove,
                              !.version = @ + 1],
                !.quil_programs = IF cached THEN Append(@, DriverProgram(Top)) ELSE @,
                !.global_strings = IF cached THEN @ ELSE Append(@, DriverProgram(Top)),
                !.execution =
                    Append(@, [function |-> Top.function, block |-> Top.block,
                               calls |-> ExecutionCalls(
                                    [shot_count |-> [some |-> TRUE, v |-> 1],
                                     parameters |-> <<>>],
                                    module.options, quil_program_index)])]
    /\ pending' = Replace(Frame(Top.function, Top.blocks, Top.block + 1,
                                Top.visited_functions))
    /\ UNCHANGED <<fixture, pc, scanned, pattern_context, output, original, patcher>>

\* insert_quil_program with program data: the program is stored for the
\* cache or as a global string, the execution block built, the phi and the
\* terminator replaced and the gates removed; then the next block.
DriverInsertQuilProgram ==
    /\ Scanned
    /\ driver_program_data(Top)
    /\ LET cached == module.options.cache_executables
           quil_program_index == Len(module.quil_programs)
       IN  module' =
            [module EXCEPT
                !.functions[Top.function][Top.block] =
                    [@ EXCEPT !.removed = @ \cup Top.instructions_to_remove,
                              !.version = @ + 1],
                !.quil_programs = IF cached THEN Append(@, DriverProgram(Top)) ELSE @,
                !.global_strings = IF cached THEN @ ELSE Append(@, DriverProgram(Top)),
                !.execution =
                    Append(@, [function |-> Top.function, block |-> Top.block,
                               calls |-> ExecutionCalls(
                                    [shot_count |-> [some |-> TRUE, v |-> 1],
                                     parameters |-> <<>>],
                                    module.options, quil_program_index)])]
    /\ pending' = Replace(Frame(Top.function, Top.blocks, Top.block + 1,
                                Top.visited_functions))
    /\ UNCHANGED <<fixture, pc, scanned, pattern_context, output, original, patcher>>

\* insert_quil_program without program data; then the next block.
DriverNotInserted ==
    /\ Scanned
    /\ ~driver_program_data(Top)
    /\ pending' = Replace(Frame(Top.function, Top.blocks, Top.block + 1,
                                Top.visited_functions))
    /\ UNCHANGED <<fixture, pc, scanned, pattern_context, output, original, module, patcher>>

\* transpile_function is past the last block and returns to the scan that
\* called it.
DriverFunctionReturns ==
    /\ pc = "drive"
    /\ pending # <<>>
    /\ Top.block > Top.blocks
    /\ pending' = SubSeq(pending, 1, Len(pending) - 1)
    /\ UNCHANGED <<fixture, pc, scanned, pattern_context, output, original, module, patcher>>

\* transpile_module after transpile_function has returned.
DriverPopulateExecutableCache ==
    /\ pc = "drive"
    /\ pending = <<>>
    /\ pc' = "ok"
    /\ module' = [module EXCEPT
            !.populate_executable_array = PopulateExecutableArray(module.quil_programs),
            !.entry_calls = <<"populate_executable_array">> \o @]
    /\ UNCHANGED <<fixture, scanned, pending, pattern_context, output, original, patcher>>

NextDriver ==
    \/ DriverLoopStart
    \/ DriverBeforeLoopStart
    \/ DriverQuantumInstruction
    \/ DriverLoopEnd
    \/ DriverLoopEndFails
    \/ DriverNestedCall
    \/ DriverLeftInPlace
    \/ DriverInsertQuilProgram
    \/ DriverNotInserted
    \/ DriverFunctionReturns
    \/ DriverPopulateExecutableCache

SpecDriver == InitDriver /\ [][NextDriver]_vars

\* Every step of the driver is a step of one thread of straight-line code.
SpecDriverLive == SpecDriver /\ WF_vars(NextDriver)

\* C36: with executables cached, the j-th execution block built reads the
\* cache at index j - 1 and quil_programs[j] is the program of its block;
\* when transpile_module has returned, populate_executable_array creates a
\* cache of as many items as blocks were patched and adds item i once for
\* every stored program, in order, so every index read is below the capacity
\* and has been added.
C36_CacheIndexPerPatchedBlock ==
    module.options.cache_executables =>
        /\ Len(module.quil_programs) = Len(module.execution)
        /\ \A j \in 1..Len(module.execution) :
              /\ module.execution[j].calls[1].callee = "get_executable"
              /\ module.execution[j].calls[1].n = j - 1
              /\ module.quil_programs[j].function = module.execution[j].function
              /\ module.quil_programs[j].block = module.execution[j].block
              /\ module.quil_programs[j].instructions # {}
        /\ pc = "ok" =>
              LET N == Len(module.execution)
                  populate == module.populate_executable_array
              IN  /\ Len(populate) = N + 3
                  /\ populate[1].callee = "create_executable_cache"
                  /\ populate[1].n = N
                  /\ populate[2].callee = "store"
                  /\ \A i \in 1..N :
                        /\ populate[2 + i].callee = "add_executable_cache_item"
                        /\ populate[2 + i].n = i - 1
                  /\ populate[N + 3].callee = "ret"
                  /\ \A j \in 1..N : module.execution[j].calls[1].n < populate[1].n

\* Three patched blocks, the block of a called function first.
C36_Witness ==
    /\ pc = "ok"
    /\ module.options.cache_executables
    /\ Len(module.execution) = 3
    /\ module.execution[1].function = "f"
    /\ module.execution[2] # module.execution[3]
    /\ module.execution[3].function = "entry"
    /\ module.execution[3].calls[1].n = 2

\* A step in which transpile_function is called from a scan.
Recurses == Len(pending') = Len(pending) + 1

\* C37: the driver calls transpile_function from a scan only on a function
\* whose name is not in the visited list of the scan, and passes the list
\* with that name added; every run of the driver on a module ends, with
\* transpile_module returning or with an error, whatever calls the
\* functions of the module make of each other and of the entry point.
C37_VisitedListEndsRecursion ==
    /\ [][Recurses =>
            LET callee == pending'[Len(pending')].function
            IN  /\ \A i \in 1..Len(Top.visited_functions) : Top.visited_functions[i] # callee
                /\ pending'[Len(pending')].visited_functions =
                        Append(Top.visited_functions, callee)]_vars
    /\ <>(pc \in {"ok", "error"})
    /\ [](Len(pending) <= Cardinality(DOMAIN module.functions) + 1)

\* Mutual recursion through the entry point: the entry point calls f, which
\* calls the entry point, whose call of f is then left in place.
C37_Witness ==
    /\ pc = "drive"
    /\ Len(pending) = 3
    /\ pending[1].function = "entry"
    /\ pending[2].function = "f"
    /\ pending[3].function = "entry"
    /\ pending[3].visited_functions = <<"f", "entry">>
    /\ pending[3].at > 3

\* The number of calls of transpile_function on a function.
Transpiled(function) == Cardinality({i \in 1..Len(scanned) : scanned[i] = function})

\* C38: in one run of the driver transpile_function is called at most once
\* on each function of the module, so that its blocks are matched and
\* patched at most once, however many calls of it the module has, and the
\* entry point is not entered again through a call.
C38_EachFunctionTranspiledOnce ==
    \A function \in DOMAIN module.functions : Transpiled(function) <= 1

\* What holds: no function other than the entry point is twice among the
\* running calls, the entry point at most twice, and no block is patched
\* twice.
C38_HoldsAlongOneCallPath ==
    /\ \A function \in DOMAIN module.functions :
          Cardinality({i \in 1..Len(pending) : pending[i].function = function})
              <= IF function = "entry" THEN 2 ELSE 1
    /\ \A function \in DOMAIN module.functions :
          \A b \in 1..Len(module.functions[function]) :
              module.functions[function][b].version <= 1

\* f is called from two places of one block and transpiled at each.
C38_Witness ==
    /\ pc = "ok"
    /\ module.functions["entry"][1].items = <<"phi", "f", "f">>
    /\ Transpiled("f") = 2
    /\ Transpiled("entry") = 1

C38_EntryPointEnteredAgain ==
    /\ Transpiled("entry") = 2
    /\ Len(pending) = 3

\* ---------------------------------------------------------------------------
\* The shot count from the icmp constant to the operand of wrap_in_shots.
\*
\* An integer of up to 64 bits is written as its limbs of 16 bits, lowest
\* limb first: two limbs for an i32, four for an i64 or a u64.
\* ---------------------------------------------------------------------------

\* The limbs the constants are drawn from: the ends of the range and the two
\* values around the sign bit.
LimbValues == {0, 1, 32767, 32768, 65535}

Limbs(count) == [1..count -> LimbValues]

\* The integer constants an icmp can hold as operand 1: of type i32 or i64.
IcmpConstants ==
    [bits : {32}, limbs : Limbs(2)] \cup [bits : {64}, limbs : Limbs(4)]

IsNegative(limbs) == limbs[Len(limbs)] >= 32768

\* get_sign_extended_constant: the constant as an i64, its sign bit copied
\* into the limbs above its width.
get_sign_extended_constant(constant) ==
    [i \in 1..4 |->
        IF i <= Len(constant.limbs) THEN constant.limbs[i]
        ELSE IF IsNegative(constant.limbs) THEN 65535 ELSE 0]

NoShotCount == [some |-> FALSE, v |-> <<0, 0, 0, 0>>]

\* u64::try_from on an i64: an error for a negative value, else the same bits.
u64_try_from(value) == IF IsNegative(value) THEN NoShotCount ELSE Some(value)

\* const_int(n, false) of the i32 type: the low 32 bits of the u64.
const_int_i32(n) == <<n[1], n[2]>>

\* The operand read back as an unsigned number of 64 bits.
ZeroExtended(limbs) == [i \in 1..4 |-> IF i <= Len(limbs) THEN limbs[i] ELSE 0]

\* wrap_in_shots: the call with the shot count as a constant of type i32.
wrap_in_shots(shots) == ExecutionCall("wrap_in_shots", const_int_i32(shots), NoFloat)

InitShots ==
    /\ fixture \in IcmpConstants
    /\ pc = "icmp"
    /\ scanned = <<>>
    /\ pending = <<>>
    /\ pattern_context = [shot_count |-> NoShotCount]
    /\ output = <<>>
    /\ original = <<>>
    /\ module = <<>>
    /\ patcher = "idle"

\* shot_count_loop_end takes the constant of the icmp as the shot count.
ShotsLoopEnd ==
    /\ pc = "icmp"
    /\ u64_try_from(get_sign_extended_constant(fixture)).some
    /\ pattern_context' =
         [shot_count |-> u64_try_from(get_sign_extended_constant(fixture))]
    /\ pc' = "matched"
    /\ UNCHANGED <<fixture, scanned, pending, output, original, module, patcher>>

\* "shot count value must be non-negative"
ShotsRejected ==
    /\ pc = "icmp"
    /\ ~u64_try_from(get_sign_extended_constant(fixture)).some
    /\ pc' = "error"
    /\ UNCHANGED <<fixture, scanned, pending, pattern_context, output, original,
                   module, patcher>>

\* insert_quil_program emits wrap_in_shots in the execution block.
ShotsWrapInShots ==
    /\ pc = "matched"
    /\ output' = <<wrap_in_shots(pattern_context.shot_count.v)>>
    /\ patcher' = "patched"
    /\ pc' = "ok"
    /\ UNCHANGED <<fixture, scanned, pending, pattern_context, original, module>>

NextShots == ShotsLoopEnd \/ ShotsRejected \/ ShotsWrapInShots

SpecShots == InitShots /\ [][NextShots]_vars

\* C39: for every shot count the matcher accepts, the shots operand of the
\* emitted wrap_in_shots call equals the shot count; the width of 32 bits
\* never changes the value.
C39_ShotsOperandEqualsShotCount ==
    patcher = "patched" =>
        ZeroExtended(output[1].n) = pattern_context.shot_count.v

\* What the code does: the operand is the shot count modulo 2^32, and it is
\* the shot count exactly when the shot count is below 2^32.
C39_OperandIsLow32Bits ==
    patcher = "patched" =>
        LET shots == pattern_context.shot_count.v IN
        /\ output[1].callee = "wrap_in_shots"
        /\ output[1].n = <<shots[1], shots[2]>>
        /\ (shots[3] = 0 /\ shots[4] = 0) <=> ZeroExtended(output[1].n) = shots

\* The shot count 2^32 + 1 reaches wrap_in_shots as 1.
C39_Witness ==
    /\ patcher = "patched"
    /\ pattern_context.shot_count.v = <<1, 0, 1, 0>>
    /\ output[1].n = <<1, 0>>

\* No executable instruction was scraped: get_program_data is None.
NoPatternDetected == Len(body_instructions(pattern_context.quil_program)) = 0

\* C40: building a Quil program from a unitary pattern match returns an
\* error when no pattern was detected, that is when the scanned block gave no
\* executable Quil instruction; it never returns a program of declarations
\* and prologue only.
C40_ErrorWhenNoPatternDetected ==
    (pc = "built" /\ NoPatternDetected) => ~output.ok

\* What the code does: every build is Ok, and without a pattern the program
\* returned is the declaration of "ro" and nothing else.
C40_OkWithDeclarationsOnly ==
    pc = "built" =>
        /\ output.ok
        /\ NoPatternDetected =>
             /\ Len(body_instructions(output.program)) = 0
             /\ "ro" \in DOMAIN output.program.memory_regions

\* A block that holds only a return is built into an Ok program.
C40_Witness ==
    /\ pc = "built"
    /\ scanned = <<Plain("Return")>>
    /\ NoPatternDetected
    /\ output.ok

====
